---------------------------- MODULE Spec2Model ----------------------------
(***************************************************************************)
(* A model of the grid generation core of bevy-osm-tiles:                  *)
(*   generator/tile_grid.rs    TileType, Tile, TileGrid                    *)
(*   config/region.rs          BoundingBox                                 *)
(*   generator/osm_parser.rs   OsmElement::to_tile_type / to_tile_metadata  *)
(*   generator/grid_builder.rs DefaultGridGenerator                        *)
(*                                                                         *)
(* f64 values are modelled as exact rationals plus NaN and the two         *)
(* infinities; usize values are modelled modulo 2^UsizeBits.               *)
(***************************************************************************)
EXTENDS Integers, Sequences, FiniteSets, TLC

VARIABLES
    width,          \* TileGrid.width
    height,         \* TileGrid.height
    bounding_box,   \* TileGrid.bounding_box
    tiles,          \* TileGrid.tiles, tiles[y][x]
    call,           \* the last call made on the grid: operation, arguments, result
    nops,           \* number of calls made so far
    metadata,       \* TileGrid.metadata
    meters_per_tile, \* TileGrid.meters_per_tile
    gen,            \* DefaultGridGenerator and the frame of its generate_grid call
    world           \* the Bevy World of the plugin: resources, messages, entities

DefaultTileSize == 10           \* OsmConfig::default().tile_size

gridVars == <<width, height, bounding_box, tiles, meters_per_tile>>
vars == <<width, height, bounding_box, tiles, call, nops, metadata, meters_per_tile, gen, world>>

(***************************************************************************)
(* Bounds of the model.                                                    *)
(***************************************************************************)
GridW == 2          \* width of the grid of the grid-store specification
GridH == 1          \* height of the grid of the grid-store specification
MaxOps == 2         \* calls made on one grid
MaxDim == 3         \* largest width and height of the grids of the coordinate specification
MaxGeo == 2         \* the bounding-box edges of the coordinate specification lie in 0..MaxGeo
UsizeBits == 4      \* width of the model's usize

(***************************************************************************)
(* Option and Result values.                                               *)
(***************************************************************************)
None == <<>>
Some(v) == <<v>>
IsSome(o) == Len(o) = 1
Unwrap(o) == o[1]
Ok(v) == [ok |-> TRUE, val |-> <<v>>]
Err(e) == [ok |-> FALSE, val |-> <<e>>]
Unit == "()"

\* A panic in place of an Option, and in place of a Result
Panic(msg) == <<"panic", msg>>
IsPanic(r) == Len(r) = 2 /\ r[1] = "panic"
Panicked(msg) == [panic |-> msg]
IndexOutOfBounds == "index out of bounds"

(***************************************************************************)
(* TileType (tile_grid.rs 8-35).  A variant is a tuple; Custom carries its *)
(* name.                                                                   *)
(***************************************************************************)
Empty == <<"Empty">>
Road == <<"Road">>
Building == <<"Building">>
Water == <<"Water">>
GreenSpace == <<"GreenSpace">>
Railway == <<"Railway">>
Parking == <<"Parking">>
Amenity == <<"Amenity">>
Tourism == <<"Tourism">>
Industrial == <<"Industrial">>
Residential == <<"Residential">>
Commercial == <<"Commercial">>
Custom(name) == <<"Custom", name>>

IsCustom(t) == t[1] = "Custom"

CustomNames == {"landuse_meadow", "landuse_quarry"}

TileType ==
    {Empty, Road, Building, Water, GreenSpace, Railway, Parking, Amenity,
     Tourism, Industrial, Residential, Commercial}
    \cup {Custom(n) : n \in CustomNames}

\* A slip in the priority table: Custom given a rank of its own, above Tourism.
priority_custom_top(t) ==
    CASE t = Empty -> 0
      [] t = GreenSpace -> 1
      [] t = Water -> 2
      [] t = Residential -> 3
      [] t = Commercial -> 4
      [] t = Industrial -> 5
      [] t = Parking -> 6
      [] t = Road -> 7
      [] t = Railway -> 8
      [] t = Building -> 9
      [] t = Amenity -> 10
      [] t = Tourism -> 11
      [] IsCustom(t) -> 12

\* TileType::priority
priority(t) ==
    CASE t = Empty -> 0
      [] t = GreenSpace -> 1
      [] t = Water -> 2
      [] t = Residential -> 3
      [] t = Commercial -> 4
      [] t = Industrial -> 5
      [] t = Parking -> 6
      [] t = Road -> 7
      [] t = Railway -> 8
      [] t = Building -> 9
      [] t = Amenity -> 10
      [] t = Tourism -> 11
      [] IsCustom(t) -> 5

(***************************************************************************)
(* TileMetadata and Tile (tile_grid.rs 112-170).  A tag map is a set of    *)
(* <<key, value>> pairs with distinct keys.                                *)
(***************************************************************************)
\* confidence is the f32 1.0, written as the rational 1/1 of the f64 section
TileMetadata(ids, tags) ==
    [osm_ids |-> ids, tags |-> tags, confidence |-> [k |-> "num", n |-> 1, d |-> 1]]

\* Tile::default
Tile_default == [tile_type |-> Empty, metadata |-> None]

\* Tile::new
Tile_new(t) == [tile_type |-> t, metadata |-> None]

\* Tile::with_metadata
Tile_with_metadata(t, m) == [tile_type |-> t, metadata |-> Some(m)]

\* The comparison written as >= instead of >.
can_be_overwritten_by_ge(self, other) ==
    priority(other.tile_type) >= priority(self.tile_type)

\* The comparison written the wrong way round.
can_be_overwritten_by_lt(self, other) ==
    priority(other.tile_type) < priority(self.tile_type)

\* The comparison left out: every tile gives way.
can_be_overwritten_by_always(self, other) == TRUE

\* Tile::can_be_overwritten_by
can_be_overwritten_by(self, other) ==
    priority(other.tile_type) > priority(self.tile_type)

(***************************************************************************)
(* TileGrid: construction and the bounds-checked accessors                 *)
(* (tile_grid.rs 208-313).  The operators take the tile storage ts and     *)
(* read the dimensions of the grid from the state.                         *)
(***************************************************************************)
\* TileGrid::new, the tile storage: height rows of width default tiles
new_tiles(w, h) == [y \in 0..(h - 1) |-> [x \in 0..(w - 1) |-> Tile_default]]

\* TileGrid::new, the metadata of a fresh grid
GridMetadata_new ==
    [elements_processed |-> 0, tiles_populated |-> 0, algorithm |-> "default"]

\* The specifications of the grid alone have no generator.
NoGenerator == [pc |-> "none"]

\* No plugin was added to the App
NoWorld == [built |-> FALSE]

\* The storage has the cell: self.tiles[y][x] panics where it has not.
HasCell(ts, x, y) == y \in DOMAIN ts /\ x \in DOMAIN ts[y]

\* TileGrid::dimensions
dimensions == <<width, height>>

\* TileGrid::get_tile
get_tile(ts, x, y) ==
    IF x < width /\ y < height
    THEN (IF HasCell(ts, x, y) THEN Some(ts[y][x]) ELSE Panic(IndexOutOfBounds))
    ELSE None

\* TileGrid::get_tile_mut: the cell the returned reference points to
get_tile_mut(ts, x, y) ==
    IF x < width /\ y < height
    THEN (IF HasCell(ts, x, y) THEN Some(<<x, y>>) ELSE Panic(IndexOutOfBounds))
    ELSE None

OutOfBounds(x, y) == "Coordinates out of bounds"

\* The bounds test of set_tile left out: the write goes through when the
\* storage has the cell and is dropped silently otherwise.
set_tile_unchecked(ts, x, y, tile) ==
    IF y \in DOMAIN ts /\ x \in DOMAIN ts[y]
    THEN [tiles |-> [ts EXCEPT ![y][x] = tile], ret |-> Ok(Unit)]
    ELSE [tiles |-> ts, ret |-> Ok(Unit)]

\* TileGrid::set_tile
set_tile(ts, x, y, tile) ==
    IF x >= width \/ y >= height
    THEN [tiles |-> ts, ret |-> Err(OutOfBounds(x, y))]
    ELSE IF ~HasCell(ts, x, y)
    THEN [tiles |-> ts, ret |-> Panicked(IndexOutOfBounds)]
    ELSE [tiles |-> [ts EXCEPT ![y][x] = tile], ret |-> Ok(Unit)]

\* The priority test of set_tile_with_priority left out: the last writer wins.
set_tile_with_priority_last_wins(ts, x, y, tile) ==
    IF x >= width \/ y >= height
    THEN [tiles |-> ts, ret |-> Err(OutOfBounds(x, y))]
    ELSE [tiles |-> [ts EXCEPT ![y][x] = tile], ret |-> Ok(TRUE)]

\* TileGrid::set_tile_with_priority
set_tile_with_priority(ts, x, y, tile) ==
    IF x >= width \/ y >= height
    THEN [tiles |-> ts, ret |-> Err(OutOfBounds(x, y))]
    ELSE IF ~HasCell(ts, x, y)
    THEN [tiles |-> ts, ret |-> Panicked(IndexOutOfBounds)]
    ELSE LET current_tile == ts[y][x]
         IN  IF can_be_overwritten_by(current_tile, tile)
             THEN [tiles |-> [ts EXCEPT ![y][x] = tile], ret |-> Ok(TRUE)]
             ELSE [tiles |-> ts, ret |-> Ok(FALSE)]

(***************************************************************************)
(* usize and f64.  An f64 is an exact rational n/d in lowest terms with    *)
(* d > 0, a NaN or an infinity of sign n.                                  *)
(***************************************************************************)
UsizeMod == 2 ^ UsizeBits
USIZE_MAX == UsizeMod - 1

RECURSIVE GCD(_, _)
GCD(a, b) == IF b = 0 THEN a ELSE GCD(b, a % b)

Abs(i) == IF i < 0 THEN -i ELSE i
Sign(i) == IF i < 0 THEN -1 ELSE IF i > 0 THEN 1 ELSE 0

NaN == [k |-> "nan", n |-> 0, d |-> 0]
Inf(sgn) == [k |-> "inf", n |-> sgn, d |-> 0]

\* n/d for d # 0, in lowest terms
Rat(n, d) ==
    LET g == GCD(Abs(n), Abs(d))
    IN  [k |-> "num", n |-> Sign(d) * (n \div g), d |-> Abs(d) \div g]

IsNum(a) == a.k = "num"
IsNaN(a) == a.k = "nan"
IsInf(a) == a.k = "inf"

FNeg(a) == IF IsNaN(a) THEN NaN ELSE [a EXCEPT !.n = -a.n]

FAdd(a, b) ==
    IF IsNaN(a) \/ IsNaN(b) THEN NaN
    ELSE IF IsInf(a) /\ IsInf(b) THEN (IF a.n = b.n THEN a ELSE NaN)
    ELSE IF IsInf(a) THEN a
    ELSE IF IsInf(b) THEN b
    ELSE Rat(a.n * b.d + b.n * a.d, a.d * b.d)

FSub(a, b) == FAdd(a, FNeg(b))

\* The sign of a zero is taken as positive.
FSign(a) == IF a.n < 0 THEN -1 ELSE 1

FMul(a, b) ==
    IF IsNaN(a) \/ IsNaN(b) THEN NaN
    ELSE IF IsInf(a) \/ IsInf(b)
         THEN (IF a.n = 0 \/ b.n = 0 THEN NaN ELSE Inf(FSign(a) * FSign(b)))
    ELSE Rat(a.n * b.n, a.d * b.d)

FDiv(a, b) ==
    IF IsNaN(a) \/ IsNaN(b) THEN NaN
    ELSE IF IsInf(a) THEN (IF IsInf(b) THEN NaN ELSE Inf(FSign(a) * FSign(b)))
    ELSE IF IsInf(b) THEN Rat(0, 1)
    ELSE IF b.n = 0 THEN (IF a.n = 0 THEN NaN ELSE Inf(FSign(a)))
    ELSE Rat(a.n * b.d, a.d * b.n)

\* a < b; every comparison with a NaN is false
FLt(a, b) ==
    IF IsNaN(a) \/ IsNaN(b) THEN FALSE
    ELSE IF IsInf(a) THEN a.n < 0 /\ ~(IsInf(b) /\ b.n < 0)
    ELSE IF IsInf(b) THEN b.n > 0
    ELSE a.n * b.d < b.n * a.d

FGt(a, b) == FLt(b, a)
FLe(a, b) == ~IsNaN(a) /\ ~IsNaN(b) /\ ~FLt(b, a)
FGe(a, b) == FLe(b, a)

\* usize as f64
F64(i) == Rat(i, 1)

\* f64 as usize: truncates towards zero and saturates; a NaN gives 0
as_usize(a) ==
    IF IsNaN(a) THEN 0
    ELSE IF IsInf(a) THEN (IF a.n > 0 THEN USIZE_MAX ELSE 0)
    ELSE IF a.n <= 0 THEN 0
    ELSE IF a.n \div a.d > USIZE_MAX THEN USIZE_MAX
    ELSE a.n \div a.d

Min(a, b) == IF a <= b THEN a ELSE b
Max(a, b) == IF a >= b THEN a ELSE b

(***************************************************************************)
(* BoundingBox (region.rs 36-68).                                          *)
(***************************************************************************)
\* BoundingBox::width
bbox_width(b) == FSub(b.east, b.west)

\* BoundingBox::height
bbox_height(b) == FSub(b.north, b.south)

\* BoundingBox::contains
contains(b, lat, lon) ==
    FGe(lat, b.south) /\ FLe(lat, b.north) /\ FGe(lon, b.west) /\ FLe(lon, b.east)

(***************************************************************************)
(* The coordinate mapping of TileGrid (tile_grid.rs 316-353).              *)
(* self.width - 1 and self.height - 1 overflow when the dimension is 0:    *)
(* a build with overflow checks panics there, one without wraps around.    *)
(***************************************************************************)
\* The latitude axis not flipped: row 0 at the southern edge.
geo_to_grid_unflipped(lat, lon, overflow_checks) ==
    IF ~contains(bounding_box, lat, lon) THEN None
    ELSE LET width_deg == bbox_width(bounding_box)
             height_deg == bbox_height(bounding_box)
             x_ratio == FDiv(FSub(lon, bounding_box.west), width_deg)
             y_ratio == FDiv(FSub(lat, bounding_box.south), height_deg)
             x == as_usize(FMul(x_ratio, F64(width)))
             y == as_usize(FMul(y_ratio, F64(height)))
         IN  IF overflow_checks /\ (width = 0 \/ height = 0)
             THEN Panic("attempt to subtract with overflow")
             ELSE Some(<<Min(x, (width - 1) % UsizeMod),
                         Min(y, (height - 1) % UsizeMod)>>)

\* TileGrid::geo_to_grid
geo_to_grid(lat, lon, overflow_checks) ==
    IF ~contains(bounding_box, lat, lon) THEN None
    ELSE LET width_deg == bbox_width(bounding_box)
             height_deg == bbox_height(bounding_box)
             x_ratio == FDiv(FSub(lon, bounding_box.west), width_deg)
             y_ratio == FDiv(FSub(bounding_box.north, lat), height_deg)
             x == as_usize(FMul(x_ratio, F64(width)))
             y == as_usize(FMul(y_ratio, F64(height)))
         IN  IF overflow_checks /\ (width = 0 \/ height = 0)
             THEN Panic("attempt to subtract with overflow")
             ELSE Some(<<Min(x, (width - 1) % UsizeMod),
                         Min(y, (height - 1) % UsizeMod)>>)

\* The corner of the tile returned instead of its center.
grid_to_geo_corner(x, y) ==
    IF x >= width \/ y >= height THEN None
    ELSE LET width_deg == bbox_width(bounding_box)
             height_deg == bbox_height(bounding_box)
             x_ratio == FDiv(F64(x + 1), F64(width))
             y_ratio == FDiv(F64(y + 1), F64(height))
             lon == FAdd(bounding_box.west, FMul(x_ratio, width_deg))
             lat == FSub(bounding_box.north, FMul(y_ratio, height_deg))
         IN  Some(<<lat, lon>>)

\* TileGrid::grid_to_geo
grid_to_geo(x, y) ==
    IF x >= width \/ y >= height THEN None
    ELSE LET width_deg == bbox_width(bounding_box)
             height_deg == bbox_height(bounding_box)
             x_ratio == FDiv(FAdd(F64(x), Rat(1, 2)), F64(width))
             y_ratio == FDiv(FAdd(F64(y), Rat(1, 2)), F64(height))
             lon == FAdd(bounding_box.west, FMul(x_ratio, width_deg))
             lat == FSub(bounding_box.north, FMul(y_ratio, height_deg))
         IN  Some(<<lat, lon>>)

(***************************************************************************)
(* TileGrid::get_area (tile_grid.rs 408-429).  x_start + width and         *)
(* y_start + height are usize additions: on overflow a build with overflow *)
(* checks panics and one without wraps around.  Vec::with_capacity panics  *)
(* when the capacity asked for is more than isize::MAX bytes; the model    *)
(* counts one byte per element.                                            *)
(***************************************************************************)
ISIZE_MAX == USIZE_MAX \div 2

\* true when Vec::with_capacity(n) panics with "capacity overflow"
CapacityOverflow(n) == n > ISIZE_MAX

\* The tiles of the rectangle of columns x_start..x_end-1 and rows
\* y_start..y_end-1, row by row
AreaRows(ts, x_start, x_end, y_start, y_end) ==
    [j \in 1..Max(0, y_end - y_start) |->
        [i \in 1..Max(0, x_end - x_start) |-> ts[y_start + j - 1][x_start + i - 1]]]

\* TileGrid::get_area
get_area(ts, x_start, y_start, w, h, overflow_checks) ==
    LET x_end == (x_start + w) % UsizeMod
        y_end == (y_start + h) % UsizeMod
    IN  IF overflow_checks /\ x_start + w > USIZE_MAX
        THEN Panic("attempt to add with overflow")
        ELSE IF x_end > width THEN None
        ELSE IF overflow_checks /\ y_start + h > USIZE_MAX
        THEN Panic("attempt to add with overflow")
        ELSE IF y_end > height THEN None
        ELSE IF CapacityOverflow(h) THEN Panic("capacity overflow")
        ELSE IF y_start < y_end /\ CapacityOverflow(w) THEN Panic("capacity overflow")
        ELSE Some(AreaRows(ts, x_start, x_end, y_start, y_end))

(***************************************************************************)
(* OsmElement (osm_parser.rs 9-97).  An element is a record of its id, its *)
(* tag map and its geometry, a sequence of <<lat, lon>> pairs.             *)
(***************************************************************************)
contains_key(tags, key) == \E p \in tags : p[1] = key
TagIs(tags, key, value) == <<key, value>> \in tags
TagValue(tags, key) == (CHOOSE p \in tags : p[1] = key)[2]

\* to_tile_type, the match on the value of the building tag
building_type(tags) ==
    CASE TagIs(tags, "building", "residential") -> Residential
      [] TagIs(tags, "building", "commercial") -> Commercial
      [] TagIs(tags, "building", "retail") -> Commercial
      [] TagIs(tags, "building", "industrial") -> Industrial
      [] OTHER -> Building

\* to_tile_type, the branches after the highway branch
to_tile_type_from_water(tags) ==
    IF contains_key(tags, "waterway") \/ TagIs(tags, "natural", "water") THEN Water
    ELSE IF \/ TagIs(tags, "leisure", "park")
            \/ TagIs(tags, "leisure", "garden")
            \/ TagIs(tags, "landuse", "forest")
            \/ TagIs(tags, "natural", "wood")
            \/ TagIs(tags, "landuse", "grass")
    THEN GreenSpace
    ELSE IF contains_key(tags, "railway") THEN Railway
    ELSE IF TagIs(tags, "amenity", "parking") \/ TagIs(tags, "landuse", "parking")
    THEN Parking
    ELSE IF contains_key(tags, "amenity") THEN Amenity
    ELSE IF contains_key(tags, "tourism") THEN Tourism
    ELSE IF contains_key(tags, "landuse")
    THEN CASE TagIs(tags, "landuse", "residential") -> Residential
           [] TagIs(tags, "landuse", "commercial") -> Commercial
           [] TagIs(tags, "landuse", "retail") -> Commercial
           [] TagIs(tags, "landuse", "industrial") -> Industrial
           [] OTHER -> Custom("landuse_" \o TagValue(tags, "landuse"))
    ELSE Empty

\* The highway branch tested before the building branch.
to_tile_type_highway_first(tags) ==
    IF contains_key(tags, "highway") THEN Road
    ELSE IF contains_key(tags, "building") THEN building_type(tags)
    ELSE to_tile_type_from_water(tags)

\* OsmElement::to_tile_type
to_tile_type(tags) ==
    IF contains_key(tags, "building") THEN building_type(tags)
    ELSE IF contains_key(tags, "highway") THEN Road
    ELSE to_tile_type_from_water(tags)

\* OsmElement::to_tile_metadata
to_tile_metadata(element) == TileMetadata(<<element.id>>, element.tags)

(***************************************************************************)
(* OsmParser (osm_parser.rs 139-258).  The raw data is modelled parsed as  *)
(* far as serde_json parses it: it is not JSON at all, or a JSON value     *)
(* without an "elements" array, or one with the array; a raw element is a  *)
(* record of the fields the parser looks for, each an Option that is None  *)
(* where the field is missing or has the wrong JSON type.                  *)
(***************************************************************************)
ParseError(msg) == <<"Parse", msg>>

RawPoint(lat, lon) == [lat |-> lat, lon |-> lon]

\* parse_json_element: the loop over the geometry array from the k-th
\* coordinate on
RECURSIVE parse_geometry(_, _, _)
parse_geometry(geometry_array, k, coords) ==
    IF k > Len(geometry_array) THEN Ok(coords)
    ELSE IF ~IsSome(geometry_array[k].lat)
    THEN Err(ParseError("Geometry point missing 'lat'"))
    ELSE IF ~IsSome(geometry_array[k].lon)
    THEN Err(ParseError("Geometry point missing 'lon'"))
    ELSE parse_geometry(geometry_array, k + 1,
                        Append(coords, <<Unwrap(geometry_array[k].lat),
                                         Unwrap(geometry_array[k].lon)>>))

\* parse_json_element, from the geometry on
parse_json_element_geometry(element, element_type) ==
    LET geometry ==
            IF element_type = "Node"
            THEN (IF ~IsSome(element.lat) THEN Err(ParseError("Node missing 'lat'"))
                  ELSE IF ~IsSome(element.lon) THEN Err(ParseError("Node missing 'lon'"))
                  ELSE Ok(<< <<Unwrap(element.lat), Unwrap(element.lon)>> >>))
            ELSE IF IsSome(element.geometry)
            THEN parse_geometry(Unwrap(element.geometry), 1, <<>>)
            ELSE IF IsSome(element.lat) /\ IsSome(element.lon)
            THEN Ok(<< <<Unwrap(element.lat), Unwrap(element.lon)>> >>)
            ELSE Ok(<<>>)
    IN  IF ~geometry.ok THEN geometry
        ELSE IF Unwrap(geometry.val) = <<>> /\ element.tags = {} THEN Ok(None)
        ELSE Ok(Some([id |-> Unwrap(element.id), element_type |-> element_type,
                      tags |-> element.tags, geometry |-> Unwrap(geometry.val)]))

\* OsmParser::parse_json_element
parse_json_element(element) ==
    IF ~IsSome(element.id) THEN Err(ParseError("Element missing 'id'"))
    ELSE IF ~IsSome(element.type) THEN Err(ParseError("Element missing 'type'"))
    ELSE CASE Unwrap(element.type) = "node" -> parse_json_element_geometry(element, "Node")
           [] Unwrap(element.type) = "way" -> parse_json_element_geometry(element, "Way")
           [] Unwrap(element.type) = "relation" ->
                  parse_json_element_geometry(element, "Relation")
           [] OTHER -> Ok(None)

\* parse_json: the loop over the elements from the k-th on
RECURSIVE parse_elements(_, _, _)
parse_elements(elements, k, osm_elements) ==
    IF k > Len(elements) THEN Ok(osm_elements)
    ELSE LET r == parse_json_element(elements[k])
         IN  IF ~r.ok THEN r
             ELSE parse_elements(elements, k + 1,
                                 IF IsSome(Unwrap(r.val))
                                 THEN Append(osm_elements, Unwrap(Unwrap(r.val)))
                                 ELSE osm_elements)

\* OsmParser::parse_json
parse_json(raw_data) ==
    CASE raw_data.json = "invalid" -> Err(ParseError("Invalid JSON"))
      [] raw_data.json = "no elements" ->
             Err(ParseError("No 'elements' array found in JSON"))
      [] raw_data.json = "elements" -> parse_elements(raw_data.elements, 1, <<>>)

\* OsmParser::parse_xml
parse_xml(raw_data) ==
    Err(ParseError("XML parsing not yet implemented - use JSON format"))

\* OsmParser::parse
parse(osm_data) ==
    IF osm_data.format = "Json" THEN parse_json(osm_data.raw_data)
    ELSE parse_xml(osm_data.raw_data)

(***************************************************************************)
(* DefaultGridGenerator: the rasterizer (grid_builder.rs 82-278).  Which   *)
(* cells an element writes, and in which order, depends on its geometry    *)
(* and on the grid's dimensions and bounding box only, never on the tiles: *)
(* the operators below give the sequence of the cells handed to            *)
(* set_tile_with_priority.  The dimensions of a generated grid are at      *)
(* least 1 here, where geo_to_grid is the same in every build.             *)
(***************************************************************************)
\* A variant that clips: a point outside the box is moved to the nearest
\* point of the box before it is mapped
MapPoint_clipped(pt) ==
    LET lat == IF FLt(pt[1], bounding_box.south) THEN bounding_box.south
               ELSE IF FGt(pt[1], bounding_box.north) THEN bounding_box.north
               ELSE pt[1]
        lon == IF FLt(pt[2], bounding_box.west) THEN bounding_box.west
               ELSE IF FGt(pt[2], bounding_box.east) THEN bounding_box.east
               ELSE pt[2]
    IN  geo_to_grid(lat, lon, FALSE)

MapPoint(pt) == geo_to_grid(pt[1], pt[2], FALSE)

\* The loop of draw_line from (x, y) on: the cells it writes, in order.  The
\* recursion is cut after fuel rounds.
RECURSIVE draw_line_loop(_, _, _, _, _, _, _, _, _, _)
draw_line_loop(x, y, x2, y2, dx, dy, sx, sy, err, fuel) ==
    LET here == IF x >= 0 /\ y >= 0 THEN << <<x, y>> >> ELSE <<>>
        e2 == 2 * err
        err_x == IF e2 > -dy THEN err - dy ELSE err
        next_x == IF e2 > -dy THEN x + sx ELSE x
        err_y == IF e2 < dx THEN err_x + dx ELSE err_x
        next_y == IF e2 < dx THEN y + sy ELSE y
    IN  IF (x = x2 /\ y = y2) \/ fuel = 0
        THEN here
        ELSE here \o draw_line_loop(next_x, next_y, x2, y2, dx, dy, sx, sy, err_y, fuel - 1)

\* The y step left out of the loop body.
line_step_x_only(x, y, dx, dy, sx, sy, err) ==
    LET e2 == 2 * err
    IN  IF e2 > -dy THEN <<x + sx, y, err - dy>> ELSE <<x, y, err>>

\* draw_line, lines 199-208: one pass of the loop body after the break test
line_step(x, y, dx, dy, sx, sy, err) ==
    LET e2 == 2 * err
        err_x == IF e2 > -dy THEN err - dy ELSE err
        next_x == IF e2 > -dy THEN x + sx ELSE x
        err_y == IF e2 < dx THEN err_x + dx ELSE err_x
        next_y == IF e2 < dx THEN y + sy ELSE y
    IN  <<next_x, next_y, err_y>>

\* draw_line, the loop run for at most fuel passes: whether it has reached
\* its break and the passes made before it
RECURSIVE draw_line_run(_, _, _, _, _, _, _, _, _, _, _)
draw_line_run(x, y, x2, y2, dx, dy, sx, sy, err, steps, fuel) ==
    IF x = x2 /\ y = y2 THEN [reached |-> TRUE, steps |-> steps]
    ELSE IF fuel = 0 THEN [reached |-> FALSE, steps |-> steps]
    ELSE LET n == line_step(x, y, dx, dy, sx, sy, err)
         IN  draw_line_run(n[1], n[2], x2, y2, dx, dy, sx, sy, n[3], steps + 1, fuel - 1)

\* Only the two endpoints are written.
draw_line_endpoints(x1, y1, x2, y2) == << <<x1, y1>>, <<x2, y2>> >>

\* DefaultGridGenerator::draw_line
draw_line(x1, y1, x2, y2) ==
    LET dx == Abs(x2 - x1)
        dy == Abs(y2 - y1)
        sx == IF x1 < x2 THEN 1 ELSE -1
        sy == IF y1 < y2 THEN 1 ELSE -1
    IN  draw_line_loop(x1, y1, x2, y2, dx, dy, sx, sy, dx - dy, dx + dy + 1)

\* DefaultGridGenerator::point_in_polygon: the edge from polygon[j] to
\* polygon[i] crosses the ray of the point
EdgeCrosses(lat, lon, pi, pj) ==
    /\ FGt(pi[1], lat) # FGt(pj[1], lat)
    /\ FLt(lon, FAdd(FDiv(FMul(FSub(pj[2], pi[2]), FSub(lat, pi[1])),
                          FSub(pj[1], pi[1])),
                     pi[2]))

\* DefaultGridGenerator::point_in_polygon
point_in_polygon(lat, lon, polygon) ==
    LET n == Len(polygon)
        crossing == {i \in 1..n :
                        EdgeCrosses(lat, lon, polygon[i],
                                    polygon[IF i = 1 THEN n ELSE i - 1])}
    IN  Cardinality(crossing) % 2 = 1

\* DefaultGridGenerator::fill_polygon
fill_polygon(geometry) ==
    LET mapped == {Unwrap(MapPoint(geometry[i])) :
                      i \in {k \in 1..Len(geometry) : IsSome(MapPoint(geometry[k]))}}
        xs == {c[1] : c \in mapped}
        ys == {c[2] : c \in mapped}
        min_x == CHOOSE v \in xs : \A u \in xs : v <= u
        max_x == CHOOSE v \in xs : \A u \in xs : v >= u
        min_y == CHOOSE v \in ys : \A u \in ys : v <= u
        max_y == CHOOSE v \in ys : \A u \in ys : v >= u
        cols == max_x - min_x + 1
        rows == max_y - min_y + 1
        rect == [k \in 1..(rows * cols) |->
                    <<min_x + ((k - 1) % cols), min_y + ((k - 1) \div cols)>>]
        Inside(c) ==
            LET geo == grid_to_geo(c[1], c[2])
            IN  IsSome(geo) /\ point_in_polygon(Unwrap(geo)[1], Unwrap(geo)[2], geometry)
    IN  IF mapped = {} THEN <<>> ELSE SelectSeq(rect, Inside)

\* Industrial left out of the types that are filled.
should_fill_no_industrial(tile_type) ==
    tile_type \in {Building, Water, GreenSpace, Parking, Residential, Commercial}

\* rasterize_line: the types whose polygons are filled
should_fill(tile_type) ==
    tile_type \in {Building, Water, GreenSpace, Parking, Residential, Commercial,
                   Industrial}

\* rasterize_line: the outline, the windows from the k-th on
RECURSIVE outline(_, _)
outline(geometry, k) ==
    IF k >= Len(geometry) THEN <<>>
    ELSE LET a == MapPoint(geometry[k])
             b == MapPoint(geometry[k + 1])
             seg == IF IsSome(a) /\ IsSome(b)
                    THEN draw_line(Unwrap(a)[1], Unwrap(a)[2], Unwrap(b)[1], Unwrap(b)[2])
                    ELSE <<>>
         IN  seg \o outline(geometry, k + 1)

\* DefaultGridGenerator::rasterize_line
rasterize_line(geometry, tile_type) ==
    outline(geometry, 1)
        \o (IF should_fill(tile_type) /\ Len(geometry) >= 3
            THEN fill_polygon(geometry)
            ELSE <<>>)

\* rasterize_element without its test for the Empty type.
rasterize_element_no_skip(element) ==
    IF Len(element.geometry) = 0 THEN <<>>
    ELSE IF Len(element.geometry) = 1
    THEN (IF IsSome(MapPoint(element.geometry[1]))
          THEN <<Unwrap(MapPoint(element.geometry[1]))>>
          ELSE <<>>)
    ELSE rasterize_line(element.geometry, to_tile_type(element.tags))

\* DefaultGridGenerator::rasterize_element: the cells written for an element
rasterize_element(element) ==
    LET tile_type == to_tile_type(element.tags)
    IN  IF tile_type = Empty THEN <<>>
        ELSE IF Len(element.geometry) = 0 THEN <<>>
        ELSE IF Len(element.geometry) = 1
        THEN (IF IsSome(MapPoint(element.geometry[1]))
              THEN <<Unwrap(MapPoint(element.geometry[1]))>>
              ELSE <<>>)
        ELSE rasterize_line(element.geometry, tile_type)

\* rasterize_element: the tile written for an element
element_tile(element) ==
    Tile_with_metadata(to_tile_type(element.tags), to_tile_metadata(element))

(***************************************************************************)
(* The grid-store specification: one grid made by TileGrid::new, then up   *)
(* to MaxOps calls of set_tile and set_tile_with_priority with any         *)
(* coordinates (one past the last column and row included) and any tile.   *)
(***************************************************************************)
Box(s, w, n, e) == [south |-> s, west |-> w, north |-> n, east |-> e]

\* The tiles a call of set_tile brings: made by Tile::new, as the tests make
\* them.
PlainTiles == {Tile_new(t) : t \in TileType}

\* The tiles the k-th call brings to set_tile_with_priority: made by
\* Tile::with_metadata, as the rasterizer makes them, from an element with id k.
MetaTiles(k) == {Tile_with_metadata(t, TileMetadata(<<k>>, {})) : t \in TileType}

\* The coordinates of a call: every cell of the grid, one coordinate pair past
\* the last column and one past the last row.
CoordArgs ==
    ((0..(width - 1)) \X (0..(height - 1))) \cup {<<width, 0>>, <<0, height>>}

Init ==
    /\ width = GridW
    /\ height = GridH
    /\ bounding_box = Box(F64(0), F64(0), F64(1), F64(1))
    /\ tiles = new_tiles(GridW, GridH)
    /\ call = [op |-> "new"]
    /\ nops = 0
    /\ metadata = GridMetadata_new
    /\ meters_per_tile = F64(DefaultTileSize)
    /\ world = NoWorld
    /\ gen = NoGenerator

SetTile(x, y, tile) ==
    /\ LET r == set_tile(tiles, x, y, tile)
       IN  /\ tiles' = r.tiles
           /\ call' = [op |-> "set_tile", x |-> x, y |-> y, tile |-> tile,
                       old |-> get_tile(tiles, x, y), ret |-> r.ret]
    /\ nops' = nops + 1
    /\ UNCHANGED <<world, width, height, bounding_box, meters_per_tile, metadata, gen>>

SetTileWithPriority(x, y, tile) ==
    /\ LET r == set_tile_with_priority(tiles, x, y, tile)
       IN  /\ tiles' = r.tiles
           /\ call' = [op |-> "set_tile_with_priority", x |-> x, y |-> y,
                       tile |-> tile, old |-> get_tile(tiles, x, y),
                       ret |-> r.ret]
    /\ nops' = nops + 1
    /\ UNCHANGED <<world, width, height, bounding_box, meters_per_tile, metadata, gen>>

CallSetTile ==
    /\ nops < MaxOps
    /\ \E c \in CoordArgs, t \in PlainTiles : SetTile(c[1], c[2], t)

CallSetTileWithPriority ==
    /\ nops < MaxOps
    /\ \E c \in CoordArgs, t \in MetaTiles(nops + 1) :
           SetTileWithPriority(c[1], c[2], t)

Next == CallSetTile \/ CallSetTileWithPriority

Spec == Init /\ [][Next]_vars

(***************************************************************************)
(* Properties of the grid store, checked under Spec.                       *)
(***************************************************************************)
IsWrite(c) == c.op \in {"set_tile", "set_tile_with_priority"}
InRangeCall(c) == IsWrite(c) /\ c.x < width /\ c.y < height
OutOfRangeCall(c) == IsWrite(c) /\ (c.x >= width \/ c.y >= height)
PriorityCall(c) == c.op = "set_tile_with_priority" /\ c.x < width /\ c.y < height
OldTile == Unwrap(call.old)
Cell == tiles[call.y][call.x]
Prio5Class(t) == t = Industrial \/ IsCustom(t)

\* C1: a priority write of a tile whose type has a higher priority than the
\* cell's returns Ok(true) and the cell then holds the written tile; one of a
\* lower priority returns Ok(false) and the cell keeps its tile, type and
\* metadata.
C1_PriorityWrite ==
    PriorityCall(call) =>
        /\ priority(call.tile.tile_type) > priority(OldTile.tile_type)
               => call.ret = Ok(TRUE) /\ Cell = call.tile
        /\ priority(call.tile.tile_type) < priority(OldTile.tile_type)
               => call.ret = Ok(FALSE) /\ Cell = OldTile

\* C1 witness: a cell that a priority write had filled with a Building
\* rejected the Road of a later priority write.
C1_Witness ==
    /\ PriorityCall(call)
    /\ OldTile.tile_type = Building
    /\ IsSome(OldTile.metadata)
    /\ call.tile.tile_type = Road
    /\ call.ret = Ok(FALSE)

C2_EqualPriorityRejected ==
    PriorityCall(call) =>
        (priority(call.tile.tile_type) = priority(OldTile.tile_type)
            => call.ret = Ok(FALSE) /\ Cell = OldTile)

C2_SecondWriteChangesNothing ==
    (/\ PriorityCall(call)
     /\ call'.op = "set_tile_with_priority"
     /\ call'.x = call.x /\ call'.y = call.y
     /\ call'.tile.tile_type = call.tile.tile_type)
        => tiles' = tiles /\ call'.ret = Ok(FALSE)

\* C2: a priority write of a tile whose type has the priority of the cell's
\* tile (the same type or another one) returns Ok(false) and leaves the cell
\* as it was; and a priority write that repeats the type and the cell of the
\* call before it changes nothing.
C2_FirstWriterWins ==
    []C2_EqualPriorityRejected /\ [][C2_SecondWriteChangesNothing]_vars

\* C2 witness: a cell holding Industrial kept it against a Custom tile.
C2_Witness ==
    /\ PriorityCall(call)
    /\ OldTile.tile_type = Industrial
    /\ IsCustom(call.tile.tile_type)
    /\ call.ret = Ok(FALSE)
    /\ Cell = OldTile

\* C5 as stated: any two distinct tile types have different priorities, so
\* that exactly one of them can overwrite the other.
C5_DistinctPriorities ==
    (PriorityCall(call) /\ call.tile.tile_type # OldTile.tile_type) =>
        /\ priority(call.tile.tile_type) # priority(OldTile.tile_type)
        /\ can_be_overwritten_by(OldTile, call.tile)
               # can_be_overwritten_by(call.tile, OldTile)

\* C5 (amended): the priorities lie in 0..11; two distinct types have
\* different priorities, and exactly one can overwrite the other, unless both
\* are among Industrial and the Custom types, which all have priority 5 and
\* never overwrite one another; every type but Empty overwrites Empty and
\* Tourism overwrites every other type, and neither happens the other way.
C5_PriorityPreorder ==
    PriorityCall(call) =>
        LET a == OldTile.tile_type
            b == call.tile.tile_type
        IN  /\ priority(a) \in 0..11 /\ priority(b) \in 0..11
            /\ (a # b /\ ~(Prio5Class(a) /\ Prio5Class(b))) =>
                   /\ priority(a) # priority(b)
                   /\ can_be_overwritten_by(OldTile, call.tile)
                          # can_be_overwritten_by(call.tile, OldTile)
            /\ (Prio5Class(a) /\ Prio5Class(b)) =>
                   /\ priority(a) = 5 /\ priority(b) = 5
                   /\ call.ret = Ok(FALSE)
            /\ (a = Empty /\ b # Empty) => call.ret = Ok(TRUE)
            /\ b = Empty => call.ret = Ok(FALSE)
            /\ (b = Tourism /\ a # Tourism) => call.ret = Ok(TRUE)
            /\ a = Tourism => call.ret = Ok(FALSE)

\* C5 witness: a cell holding one Custom type was offered another Custom type.
C5_Witness ==
    /\ PriorityCall(call)
    /\ IsCustom(OldTile.tile_type)
    /\ IsCustom(call.tile.tile_type)
    /\ OldTile.tile_type # call.tile.tile_type
    /\ call.ret = Ok(FALSE)

C9_Results ==
    /\ OutOfRangeCall(call) => ~call.ret.ok
    /\ (call.op = "set_tile" /\ InRangeCall(call)) =>
           call.ret = Ok(Unit) /\ Cell = call.tile

C9_OutOfRangeFrame == OutOfRangeCall(call') => tiles' = tiles

\* C9: set_tile and set_tile_with_priority with x >= width or y >= height
\* return Err and leave every tile as it was; set_tile with coordinates in
\* range returns Ok and the cell then holds the given tile, whatever it held.
C9_BoundsAndOverwrite == []C9_Results /\ [][C9_OutOfRangeFrame]_vars

\* C9 witness: set_tile put an Empty tile over a Building, and so over a tile
\* of higher priority.
C9_Witness ==
    /\ call.op = "set_tile" /\ InRangeCall(call)
    /\ OldTile.tile_type = Building
    /\ call.tile.tile_type = Empty
    /\ Cell.tile_type = Empty

\* An out-of-range call was made on a grid that holds a non-Empty tile.
C9_WitnessOutOfRange ==
    /\ OutOfRangeCall(call)
    /\ \E y \in 0..(height - 1), x \in 0..(width - 1) : tiles[y][x].tile_type # Empty

(***************************************************************************)
(* The coordinate specification: a grid made by TileGrid::new with any     *)
(* dimensions in 0..MaxDim and any bounding box with edges in 0..MaxGeo    *)
(* (inverted and empty boxes included), then one query: geo_to_grid of any *)
(* point, or grid_to_geo of any cell followed by geo_to_grid of its        *)
(* result.  The queries take &self and change nothing, so one query per    *)
(* behaviour loses no case.                                                *)
(***************************************************************************)
GeoVals == {F64(i) : i \in 0..MaxGeo}
GeoBoxes == {Box(s, w, n, e) : s \in GeoVals, w \in GeoVals, n \in GeoVals, e \in GeoVals}

\* The coordinates of a query: the half steps from -1/2 to MaxGeo + 1/2, and NaN
GeoCoords == {Rat(i, 2) : i \in (-1)..(2 * MaxGeo + 1)} \cup {NaN}

InitGeo ==
    /\ width \in 0..MaxDim
    /\ height \in 0..MaxDim
    /\ bounding_box \in GeoBoxes
    /\ tiles = new_tiles(width, height)
    /\ call = [op |-> "new"]
    /\ nops = 0
    /\ metadata = GridMetadata_new
    /\ meters_per_tile = F64(DefaultTileSize)
    /\ world = NoWorld
    /\ gen = NoGenerator

GeoToGrid(lat, lon) ==
    /\ call.op = "new"
    /\ \E overflow_checks \in BOOLEAN :
           call' = [op |-> "geo_to_grid", lat |-> lat, lon |-> lon, from |-> None,
                    ret |-> geo_to_grid(lat, lon, overflow_checks)]
    /\ UNCHANGED <<world, gridVars, nops, metadata, gen>>

GridToGeo(x, y) ==
    /\ call.op = "new"
    /\ call' = [op |-> "grid_to_geo", x |-> x, y |-> y, ret |-> grid_to_geo(x, y)]
    /\ UNCHANGED <<world, gridVars, nops, metadata, gen>>

\* geo_to_grid of the point the last grid_to_geo returned
GeoToGridOfCenter ==
    /\ call.op = "grid_to_geo"
    /\ IsSome(call.ret)
    /\ \E overflow_checks \in BOOLEAN :
           call' = [op |-> "geo_to_grid",
                    lat |-> Unwrap(call.ret)[1], lon |-> Unwrap(call.ret)[2],
                    from |-> Some(<<call.x, call.y>>),
                    ret |-> geo_to_grid(Unwrap(call.ret)[1], Unwrap(call.ret)[2],
                                        overflow_checks)]
    /\ UNCHANGED <<world, gridVars, nops, metadata, gen>>

CallGeoToGrid == \E lat \in GeoCoords, lon \in GeoCoords : GeoToGrid(lat, lon)
CallGridToGeo == \E x \in 0..width, y \in 0..height : GridToGeo(x, y)

NextGeo == CallGeoToGrid \/ CallGridToGeo \/ GeoToGridOfCenter

SpecGeo == InitGeo /\ [][NextGeo]_vars

(***************************************************************************)
(* Properties of the coordinate mapping, checked under SpecGeo.            *)
(***************************************************************************)
GeoCall == call.op = "geo_to_grid"
InBox == contains(bounding_box, call.lat, call.lon)
RetX == Unwrap(call.ret)[1]
RetY == Unwrap(call.ret)[2]
ProperBox ==
    FGt(bounding_box.north, bounding_box.south) /\ FGt(bounding_box.east, bounding_box.west)
OrderedBox ==
    FGe(bounding_box.north, bounding_box.south) /\ FGe(bounding_box.east, bounding_box.west)

\* C6: geo_to_grid returns None for a point outside the bounding box and
\* otherwise Some((x, y)) with x < width and y < height, without panicking,
\* whatever the dimensions and the bounding box of the grid.
C6_InRangeOrNone ==
    GeoCall =>
        IF InBox
        THEN IsSome(call.ret) /\ RetX < width /\ RetY < height
        ELSE call.ret = None

C7_GridToGeoDefined ==
    call.op = "grid_to_geo" =>
        (IsSome(call.ret) <=> (call.x < width /\ call.y < height))

C7_CenterMapsBack ==
    (GeoCall /\ IsSome(call.from)) => call.ret = Some(Unwrap(call.from))

CellOf(lat, lon) == Unwrap(geo_to_grid(lat, lon, FALSE))

C8_Edges ==
    /\ call.lat = bounding_box.north => RetY = 0
    /\ call.lon = bounding_box.west => RetX = 0
    /\ call.lat = bounding_box.south => RetY = height - 1
    /\ call.lon = bounding_box.east => RetX = width - 1

C8_Monotone ==
    \A lat \in GeoCoords, lon \in GeoCoords :
        contains(bounding_box, lat, lon) =>
            /\ FGt(lat, call.lat) => CellOf(lat, lon)[2] <= RetY
            /\ FGt(lon, call.lon) => CellOf(lat, lon)[1] >= RetX

AreaTiles == {Tile_new(Road), Tile_new(Water)}

AreaSetTile ==
    /\ nops < MaxOps
    /\ \E x \in 0..(width - 1), y \in 0..(height - 1), t \in AreaTiles : SetTile(x, y, t)

GetArea(x_start, y_start, w, h) ==
    /\ \E overflow_checks \in BOOLEAN :
           call' = [op |-> "get_area", x_start |-> x_start, y_start |-> y_start,
                    width |-> w, height |-> h,
                    ret |-> get_area(tiles, x_start, y_start, w, h, overflow_checks)]
    /\ UNCHANGED <<world, gridVars, nops, metadata, gen>>

CallGetArea ==
    /\ call.op # "get_area"
    /\ \E x_start \in 0..USIZE_MAX, y_start \in 0..USIZE_MAX,
          w \in 0..USIZE_MAX, h \in 0..USIZE_MAX : GetArea(x_start, y_start, w, h)

NextArea == AreaSetTile \/ CallGetArea

SpecArea == Init /\ [][NextArea]_vars

\* C10: get_area returns Some exactly when x_start + w <= width and
\* y_start + h <= height as mathematical integers, and then h rows of w tiles,
\* the cells (x_start + i, y_start + j); in every other case it returns None,
\* and it never panics.
C10_FullContainmentOrNone ==
    call.op = "get_area" =>
        IF call.x_start + call.width <= width /\ call.y_start + call.height <= height
        THEN call.ret =
                 Some([j \in 1..call.height |->
                          [i \in 1..call.width |->
                              tiles[call.y_start + j - 1][call.x_start + i - 1]]])
        ELSE call.ret = None

\* C10, the part that holds: the same when neither sum exceeds usize::MAX.
C10_WithoutOverflow ==
    (/\ call.op = "get_area"
     /\ call.x_start + call.width <= USIZE_MAX
     /\ call.y_start + call.height <= USIZE_MAX) =>
        IF call.x_start + call.width <= width /\ call.y_start + call.height <= height
        THEN call.ret =
                 Some([j \in 1..call.height |->
                          [i \in 1..call.width |->
                              tiles[call.y_start + j - 1][call.x_start + i - 1]]])
        ELSE call.ret = None


(***************************************************************************)
(* The generation specification: DefaultGridGenerator::generate_grid       *)
(* (grid_builder.rs 289-351) of a generator with max_grid_size (GenW,      *)
(* GenH) on well-formed JSON data.  The call is followed write by write:   *)
(* one step parses the data and creates the grid, one step enters          *)
(* rasterize_element for the next element, one step makes the next call of *)
(* set_tile_with_priority, one step stores the metadata.                   *)
(***************************************************************************)
GenW == 3           \* max_grid_size.0 of the generator
GenH == 3           \* max_grid_size.1 of the generator
MaxElems == 2       \* longest element list

DefaultGridResolution == 100    \* OsmConfig::default().grid_resolution
MinGridSize == 10               \* the minimum of calculate_grid_dimensions

\* f64::ceil
FCeil(a) == IF IsNum(a) THEN Rat(-((-a.n) \div a.d), 1) ELSE a

\* DefaultGridGenerator::calculate_grid_dimensions.  The cast saturates at the
\* model's usize::MAX; max_grid_size is a usize, so the minimum taken with it
\* is the same as with the unsaturated product.
calculate_grid_dimensions(bbox, grid_resolution, max_grid_size) ==
    LET grid_width == as_usize(FCeil(FMul(bbox_width(bbox), F64(grid_resolution))))
        grid_height == as_usize(FCeil(FMul(bbox_height(bbox), F64(grid_resolution))))
    IN  <<Min(Max(grid_width, MinGridSize), max_grid_size[1]),
          Min(Max(grid_height, MinGridSize), max_grid_size[2])>>

\* DefaultGridGenerator::calculate_meters_per_tile with the default tile_size.
\* area_km2 is a product of two Haversine distances, which is not computed
\* here: it is zero exactly when the box has no width or no height, and the
\* finite result for a box with an area stands for
\* (sqrt(area / total_tiles) + tile_size) / 2.
calculate_meters_per_tile(bbox, grid_dims) ==
    LET total_tiles == grid_dims[1] * grid_dims[2]
        no_area == bbox_width(bbox) = F64(0) \/ bbox_height(bbox) = F64(0)
    IN  IF total_tiles = 0 THEN (IF no_area THEN NaN ELSE Inf(1))
        ELSE IF no_area THEN Rat(DefaultTileSize, 2)
        ELSE F64(DefaultTileSize)

\* The bounding box of the OSM data
GenBox == Box(F64(0), F64(0), F64(2), F64(2))

Pt(lat2, lon2) == <<Rat(lat2, 2), Rat(lon2, 2)>>

\* Geometries, in half degrees: a node in the middle of the box, the diagonal
\* of the box, a closed triangle over the lower left half of the box.
GeoNode == <<Pt(2, 2)>>
GeoDiagonal == <<Pt(0, 0), Pt(4, 4)>>
GeoTriangle == <<Pt(0, 0), Pt(0, 4), Pt(4, 0), Pt(0, 0)>>
\* a way that leaves the box, and an element without geometry
GeoLeaving == <<Pt(2, 2), Pt(2, 6)>>
GeoNothing == <<>>

\* Tag maps: Road, Building, Industrial, Custom("landuse_meadow") and Empty
TagsRoad == {<<"highway", "residential">>}
TagsBuilding == {<<"building", "yes">>, <<"name", "hall">>}
TagsIndustrial == {<<"landuse", "industrial">>}
TagsMeadow == {<<"landuse", "meadow">>}
TagsNone == {<<"name", "somewhere">>}

\* The elements of the data, the id apart: tags and geometry
ElementShapes ==
    ({TagsRoad, TagsBuilding, TagsIndustrial, TagsMeadow}
        \X {GeoNode, GeoDiagonal, GeoTriangle})
    \cup {<<TagsNone, GeoDiagonal>>, <<TagsRoad, GeoLeaving>>, <<TagsRoad, GeoNothing>>}

\* A node and a way as Overpass JSON has them
RawNode(id, tags, pt) ==
    [id |-> Some(id), type |-> Some("node"), tags |-> tags,
     lat |-> Some(pt[1]), lon |-> Some(pt[2]), geometry |-> None]
RawWay(id, tags, geometry) ==
    [id |-> Some(id), type |-> Some("way"), tags |-> tags, lat |-> None, lon |-> None,
     geometry |-> Some([k \in 1..Len(geometry) |->
                           RawPoint(Some(geometry[k][1]), Some(geometry[k][2]))])]
RawShape(id, shape) ==
    IF Len(shape[2]) = 1 THEN RawNode(id, shape[1], shape[2][1])
    ELSE RawWay(id, shape[1], shape[2])

JsonData(elements) ==
    [format |-> "Json", raw_data |-> [json |-> "elements", elements |-> elements]]

\* The data: JSON with up to MaxElems elements, the k-th has id k
GenData ==
    UNION {{JsonData([k \in 1..n |-> RawShape(k, f[k])]) :
               f \in [1..n -> ElementShapes]} : n \in 0..MaxElems}

GridGeneration(e) == <<"GridGeneration", e>>

InitGen ==
    /\ width = 0
    /\ height = 0
    /\ bounding_box = GenBox
    /\ tiles = new_tiles(0, 0)
    /\ call = [op |-> "none"]
    /\ nops = 0
    /\ metadata = GridMetadata_new
    /\ meters_per_tile = F64(DefaultTileSize)
    /\ world = NoWorld
    /\ gen = [pc |-> "idle", max_grid_size |-> <<GenW, GenH>>,
              grid_resolution |-> DefaultGridResolution, elements |-> <<>>,
              next |-> 1, tile |-> Tile_default, cells |-> <<>>, tiles_updated |-> 0,
              total_tiles_updated |-> 0, result |-> None]

\* generate_grid, lines 295-320: parse, dimensions, the empty grid
GenerateGrid(osm_data) ==
    /\ gen.pc = "idle"
    /\ LET parsed == parse(osm_data)
           dims == calculate_grid_dimensions(bounding_box, gen.grid_resolution,
                                             gen.max_grid_size)
       IN  /\ call' = [op |-> "parse", osm_data |-> osm_data, ret |-> parsed]
           /\ IF parsed.ok
              THEN /\ width' = dims[1]
                   /\ height' = dims[2]
                   /\ tiles' = new_tiles(dims[1], dims[2])
                   /\ metadata' = GridMetadata_new
                   /\ meters_per_tile' = calculate_meters_per_tile(bounding_box, dims)
                   /\ gen' = [gen EXCEPT !.pc = "rasterize",
                                         !.elements = Unwrap(parsed.val),
                                         !.next = 1, !.cells = <<>>,
                                         !.total_tiles_updated = 0]
              ELSE /\ gen' = [gen EXCEPT !.pc = "failed", !.result = Some(parsed)]
                   /\ UNCHANGED <<world, width, height, tiles, metadata, meters_per_tile>>
    /\ UNCHANGED <<world, bounding_box, nops>>

CallGenerateGrid == \E osm_data \in GenData : GenerateGrid(osm_data)

\* rasterize_element panics: the element is rasterized and geo_to_grid panics
\* on one of its points.  The first point inside the box is such a point, and
\* no cell is written before geo_to_grid has returned for it.
rasterize_element_panics(element) ==
    /\ to_tile_type(element.tags) # Empty
    /\ \E i \in 1..Len(element.geometry) :
           IsPanic(geo_to_grid(element.geometry[i][1], element.geometry[i][2], TRUE))

\* generate_grid, lines 321-323, and rasterize_element up to its first write;
\* an element that writes no cell has returned Ok(0)
RasterizeElement ==
    /\ gen.pc = "rasterize"
    /\ gen.cells = <<>>
    /\ gen.next <= Len(gen.elements)
    /\ LET element == gen.elements[gen.next]
           cells == rasterize_element(element)
       IN  \E overflow_checks \in BOOLEAN :
               IF overflow_checks /\ rasterize_element_panics(element)
               THEN /\ gen' = [gen EXCEPT
                                  !.pc = "panicked",
                                  !.result = Some(Panicked("attempt to subtract with overflow"))]
                    /\ call' = [op |-> "rasterize_element", element |-> element,
                                ret |-> Some(Panicked("attempt to subtract with overflow"))]
               ELSE /\ gen' = [gen EXCEPT !.tile = element_tile(element),
                                          !.cells = cells,
                                          !.tiles_updated = 0,
                                          !.next = gen.next + 1]
                    /\ call' = [op |-> "rasterize_element", element |-> element,
                                ret |-> IF cells = <<>> THEN Some(Ok(0)) ELSE None]
    /\ UNCHANGED <<world, gridVars, nops, metadata>>

\* The next write of the element: set_tile_with_priority, and what point
\* placement, draw_line and fill_polygon do with the result
WriteTile ==
    /\ gen.pc = "rasterize"
    /\ gen.cells # <<>>
    /\ LET x == Head(gen.cells)[1]
           y == Head(gen.cells)[2]
           r == set_tile_with_priority(tiles, x, y, gen.tile)
       IN  /\ tiles' = r.tiles
           /\ call' = [op |-> "set_tile_with_priority", x |-> x, y |-> y,
                       tile |-> gen.tile, old |-> get_tile(tiles, x, y),
                       ret |-> r.ret]
           /\ gen' = IF r.ret.ok
                     THEN [gen EXCEPT
                              !.cells = Tail(gen.cells),
                              !.tiles_updated =
                                  IF Unwrap(r.ret.val) THEN @ + 1 ELSE @,
                              !.total_tiles_updated =
                                  IF Unwrap(r.ret.val) THEN @ + 1 ELSE @]
                     ELSE [gen EXCEPT
                              !.pc = "failed",
                              !.result = Some(Err(GridGeneration(Unwrap(r.ret.val))))]
    /\ UNCHANGED <<world, width, height, bounding_box, meters_per_tile, nops, metadata>>

\* generate_grid, lines 326-350: the metadata, and the grid is returned
FinishGrid ==
    /\ gen.pc = "rasterize"
    /\ gen.cells = <<>>
    /\ gen.next > Len(gen.elements)
    /\ metadata' = [metadata EXCEPT
                       !.elements_processed = Len(gen.elements),
                       !.tiles_populated = gen.total_tiles_updated,
                       !.algorithm = "default_rasterization"]
    /\ gen' = [gen EXCEPT !.pc = "done", !.result = Some(Ok("grid"))]
    /\ call' = [op |-> "generate_grid"]
    /\ UNCHANGED <<world, gridVars, nops>>

NextGen == CallGenerateGrid \/ RasterizeElement \/ WriteTile \/ FinishGrid

SpecGen == InitGen /\ [][NextGen]_vars

(***************************************************************************)
(* Properties of a generation pass, checked under SpecGen.                 *)
(***************************************************************************)
\* The writes of one element made one after the other on the storage ts
RECURSIVE write_cells(_, _, _)
write_cells(ts, cells, tile) ==
    IF cells = <<>> THEN ts
    ELSE write_cells(set_tile_with_priority(ts, Head(cells)[1], Head(cells)[2], tile).tiles,
                     Tail(cells), tile)

\* The cells each element of the list writes: rasterize_element of each
RECURSIVE cells_of(_, _)
cells_of(elements, k) ==
    IF k > Len(elements) THEN <<>>
    ELSE <<rasterize_element(elements[k])>> \o cells_of(elements, k + 1)

\* The loop of generate_grid over the elements taken in the order p, from the
\* k-th on; cells[i] are the cells the i-th element writes
RECURSIVE rasterize_elements(_, _, _, _, _)
rasterize_elements(ts, elements, cells, p, k) ==
    IF k > Len(elements) THEN ts
    ELSE rasterize_elements(
             write_cells(ts, cells[p[k]], element_tile(elements[p[k]])),
             elements, cells, p, k + 1)

GridCells == (0..(width - 1)) \X (0..(height - 1))
Covers(cells) == {cells[i] : i \in 1..Len(cells)}
ElementType(element) == to_tile_type(element.tags)

\* Two elements of different type and equal priority cover a common cell.
TieOnACell(elements, cells) ==
    \E i, j \in 1..Len(elements) :
        /\ ElementType(elements[i]) # ElementType(elements[j])
        /\ priority(ElementType(elements[i])) = priority(ElementType(elements[j]))
        /\ Covers(cells[i]) \cap Covers(cells[j]) # {}

GenCells == cells_of(gen.elements, 1)

\* C3: the grid generated from an element list and the grid rasterized from
\* any permutation of the list onto an empty grid of the same dimensions and
\* bounding box hold tiles of equal priority at every cell, and tiles of the
\* same type at every cell when no two elements of different type and equal
\* priority cover a common cell.
C3_OrderIndependent ==
    gen.pc = "done" =>
        LET cells == GenCells
            tie == TieOnACell(gen.elements, cells)
        IN  \A p \in Permutations(1..Len(gen.elements)) :
                LET other == rasterize_elements(new_tiles(width, height),
                                                gen.elements, cells, p, 1)
                IN  \A c \in GridCells :
                        /\ priority(other[c[2]][c[1]].tile_type)
                               = priority(tiles[c[2]][c[1]].tile_type)
                        /\ ~tie => other[c[2]][c[1]].tile_type
                                       = tiles[c[2]][c[1]].tile_type

\* A list of two elements of different priority that cover a common cell was
\* rasterized, the one of lower priority last; in the other order the owner of
\* no cell differs in type.
C3_Witness ==
    /\ gen.pc = "done"
    /\ Len(gen.elements) = 2
    /\ priority(ElementType(gen.elements[1])) > priority(ElementType(gen.elements[2]))
    /\ ElementType(gen.elements[2]) # Empty
    /\ Covers(GenCells[1]) \cap Covers(GenCells[2]) # {}
    /\ Covers(GenCells[2]) \ Covers(GenCells[1]) # {}
    /\ ~TieOnACell(gen.elements, GenCells)

\* The tie-break: an Industrial and a Custom element cover a common cell, and
\* the cell holds the type of the one processed first.
C3_WitnessTie ==
    /\ gen.pc = "done"
    /\ Len(gen.elements) = 2
    /\ TieOnACell(gen.elements, GenCells)
    /\ \E c \in Covers(GenCells[1]) \cap Covers(GenCells[2]) :
           /\ tiles[c[2]][c[1]].tile_type = ElementType(gen.elements[1])
           /\ rasterize_elements(new_tiles(width, height), gen.elements, GenCells,
                                 <<2, 1>>, 1)[c[2]][c[1]].tile_type
                  = ElementType(gen.elements[2])

\* C4: over every step of a generation pass, the priority of the tile of each
\* cell does not decrease, and a cell that holds a non-Empty tile does not
\* hold an Empty tile afterwards.
C4_Step ==
    gen.pc = "rasterize" =>
        \A c \in GridCells :
            /\ priority(tiles'[c[2]][c[1]].tile_type)
                   >= priority(tiles[c[2]][c[1]].tile_type)
            /\ tiles[c[2]][c[1]].tile_type # Empty =>
                   tiles'[c[2]][c[1]].tile_type # Empty

C4_PriorityNeverDecreases == [][C4_Step]_vars

\* A later element of lower priority was refused a cell that an earlier
\* element holds.
C4_Witness ==
    /\ gen.pc = "rasterize"
    /\ PriorityCall(call)
    /\ call.ret = Ok(FALSE)
    /\ priority(call.tile.tile_type) < priority(OldTile.tile_type)
    /\ call.tile.metadata # OldTile.metadata
    /\ Cell = OldTile

\* A later element of higher priority took a cell from an earlier element.
C4_WitnessOverwrite ==
    /\ gen.pc = "rasterize"
    /\ PriorityCall(call)
    /\ call.ret = Ok(TRUE)
    /\ OldTile.tile_type # Empty
    /\ Cell = call.tile

(***************************************************************************)
(* The raw-access specification: the grid of the grid-store specification  *)
(* with, besides the two setters, get_tile_mut and tiles_mut               *)
(* (tile_grid.rs 271-277, 436-439).  get_tile_mut hands out a reference to *)
(* one tile, through which the caller stores a tile; tiles_mut hands out   *)
(* the Vec<Vec<Tile>> itself, on which the caller can call any method of   *)
(* Vec: pop a row, push a row, pop a tile off a row.                       *)
(***************************************************************************)
VecLen(v) == Cardinality(DOMAIN v)
VecPop(v) == [i \in 0..(VecLen(v) - 2) |-> v[i]]
VecPush(v, e) == [i \in 0..VecLen(v) |-> IF i < VecLen(v) THEN v[i] ELSE e]

\* What a caller does with the vector tiles_mut returns
TilesMutEdits == {"pop_row", "push_row", "pop_tile"}

tiles_mut_edit(ts, edit) ==
    CASE edit = "pop_row" -> VecPop(ts)
      [] edit = "push_row" -> VecPush(ts, [x \in 0..(width - 1) |-> Tile_default])
      [] edit = "pop_tile" ->
             IF VecLen(ts) = 0 THEN ts ELSE [ts EXCEPT ![0] = VecPop(ts[0])]

GetTileMut(x, y, tile) ==
    /\ LET r == get_tile_mut(tiles, x, y)
       IN  /\ tiles' = IF IsSome(r) THEN [tiles EXCEPT ![y][x] = tile] ELSE tiles
           /\ call' = [op |-> "get_tile_mut", x |-> x, y |-> y, tile |-> tile,
                       old |-> get_tile(tiles, x, y), ret |-> r]
    /\ nops' = nops + 1
    /\ UNCHANGED <<world, width, height, bounding_box, meters_per_tile, metadata, gen>>

TilesMut(edit) ==
    /\ tiles' = tiles_mut_edit(tiles, edit)
    /\ call' = [op |-> "tiles_mut", edit |-> edit]
    /\ nops' = nops + 1
    /\ UNCHANGED <<world, width, height, bounding_box, meters_per_tile, metadata, gen>>

CallGetTileMut ==
    /\ nops < MaxOps
    /\ \E c \in CoordArgs, t \in AreaTiles : GetTileMut(c[1], c[2], t)

CallTilesMut ==
    /\ nops < MaxOps
    /\ \E edit \in TilesMutEdits : TilesMut(edit)

NextRaw == CallSetTile \/ CallSetTileWithPriority \/ CallGetTileMut \/ CallTilesMut

SpecRaw == Init /\ [][NextRaw]_vars

\* C11: after any sequence of set_tile, set_tile_with_priority, get_tile_mut
\* and tiles_mut, dimensions() is the (width, height) given to new, the storage
\* is height rows of width tiles, and get_tile(x, y) is Some exactly for
\* x < width and y < height.
C11_DimensionsFixed ==
    /\ dimensions = <<GridW, GridH>>
    /\ DOMAIN tiles = 0..(height - 1)
    /\ \A y \in DOMAIN tiles : DOMAIN tiles[y] = 0..(width - 1)
    /\ \A x \in 0..width, y \in 0..height :
           IsSome(get_tile(tiles, x, y)) <=> (x < width /\ y < height)

\* C11, the part that holds: the same as long as tiles_mut was not called.
C11_WithoutTilesMut == [](call.op # "tiles_mut") => []C11_DimensionsFixed

(***************************************************************************)
(* The statistics specification: the grid of the grid-store specification, *)
(* calls of set_tile and set_tile_with_priority with a few tile types, and *)
(* statistics() (tile_grid.rs 372-400) called on the grid they leave.      *)
(***************************************************************************)
\* counts.entry(key).or_insert(0) += 1 written as an insert of 1
entry_insert_one(counts, key) ==
    [k \in DOMAIN counts \cup {key} |-> IF k = key THEN 1 ELSE counts[k]]

\* *counts.entry(key).or_insert(0) += 1
entry_add_one(counts, key) ==
    [k \in DOMAIN counts \cup {key} |->
        IF k = key THEN (IF key \in DOMAIN counts THEN counts[key] + 1 ELSE 1)
        ELSE counts[k]]

\* The loops of count_tiles_by_type from the k-th cell on, rows first
RECURSIVE count_loop(_, _, _)
count_loop(ts, k, counts) ==
    IF k >= width * height THEN counts
    ELSE count_loop(ts, k + 1,
                    entry_add_one(counts, ts[k \div width][k % width].tile_type))

\* TileGrid::count_tiles_by_type; the map is a function on the types counted
count_tiles_by_type(ts) == count_loop(ts, 0, <<>>)

\* TileGrid::tile_count; the grid's storage has that many tiles, so the
\* product is far from usize::MAX
tile_count == width * height

\* TileGrid::statistics
statistics(ts) ==
    LET counts == count_tiles_by_type(ts)
        total_tiles == tile_count
        non_empty_tiles ==
            total_tiles - (IF Empty \in DOMAIN counts THEN counts[Empty] ELSE 0)
    IN  [total_tiles |-> total_tiles,
         non_empty_tiles |-> non_empty_tiles,
         tile_type_counts |-> counts,
         coverage_ratio |-> FDiv(F64(non_empty_tiles), F64(total_tiles)),
         dimensions |-> dimensions]

StatsTiles == {Tile_new(Road), Tile_new(Water), Tile_new(Empty),
               Tile_new(Custom("landuse_meadow"))}

StatsSetTile ==
    /\ nops < MaxOps
    /\ \E c \in CoordArgs, t \in StatsTiles : SetTile(c[1], c[2], t)

StatsSetTileWithPriority ==
    /\ nops < MaxOps
    /\ \E c \in CoordArgs, t \in StatsTiles : SetTileWithPriority(c[1], c[2], t)

Statistics ==
    /\ call.op # "statistics"
    /\ call' = [op |-> "statistics", ret |-> statistics(tiles)]
    /\ UNCHANGED <<world, gridVars, nops, metadata, gen>>

NextStats == StatsSetTile \/ StatsSetTileWithPriority \/ Statistics

SpecStats == Init /\ [][NextStats]_vars

RECURSIVE SumOver(_, _)
SumOver(f, S) ==
    IF S = {} THEN 0
    ELSE LET k == CHOOSE k \in S : TRUE IN f[k] + SumOver(f, S \ {k})

CountOf(counts, t) == IF t \in DOMAIN counts THEN counts[t] ELSE 0

\* C12: after any sequence of set_tile and set_tile_with_priority calls,
\* statistics() has non_empty_tiles + tile_type_counts[Empty] (0 when absent)
\* = total_tiles = width * height, the entries of tile_type_counts sum to
\* total_tiles, and the entry of each type is the number of cells that hold it.
C12_StatisticsConsistent ==
    call.op = "statistics" =>
        LET st == call.ret
            counts == st.tile_type_counts
        IN  /\ st.non_empty_tiles + CountOf(counts, Empty) = st.total_tiles
            /\ st.total_tiles = width * height
            /\ SumOver(counts, DOMAIN counts) = st.total_tiles
            /\ \A t \in TileType :
                   CountOf(counts, t)
                       = Cardinality({c \in GridCells : tiles[c[2]][c[1]].tile_type = t})
            /\ DOMAIN counts \subseteq TileType

\* statistics() of a grid that calls have filled entirely, with one type.
C12_Witness ==
    /\ call.op = "statistics"
    /\ nops = MaxOps
    /\ call.ret.non_empty_tiles = call.ret.total_tiles
    /\ \E t \in DOMAIN call.ret.tile_type_counts :
           t # Empty /\ call.ret.tile_type_counts[t] >= 2

(***************************************************************************)
(* The classification specification: to_tile_type (osm_parser.rs 26-88)    *)
(* called on one element, whose tag map holds up to MaxTags of the tags    *)
(* below, one value per key, and whose id, kind and geometry vary.         *)
(***************************************************************************)
MaxTags == 2        \* tags of one element

TagValues ==
    [building |-> {"yes", "residential", "commercial", "retail", "industrial"},
     highway |-> {"residential"},
     waterway |-> {"river"},
     natural |-> {"water", "wood"},
     leisure |-> {"park", "garden", "pitch"},
     landuse |-> {"forest", "grass", "parking", "residential", "commercial",
                  "retail", "industrial", "meadow"},
     railway |-> {"rail"},
     amenity |-> {"parking", "cafe"},
     tourism |-> {"hotel"},
     name |-> {"somewhere"}]

AllTags == UNION {{<<k, v>> : v \in TagValues[k]} : k \in DOMAIN TagValues}

\* The tag maps: a HashMap holds one value per key
\* The sets of at most n tags
RECURSIVE TagSetsUpTo(_)
TagSetsUpTo(n) ==
    IF n = 0 THEN {{}}
    ELSE LET smaller == TagSetsUpTo(n - 1)
         IN  smaller \cup {tags \cup {p} : tags \in smaller, p \in AllTags}

TagMaps == {tags \in TagSetsUpTo(MaxTags) : \A p, q \in tags : p[1] = q[1] => p = q}

ElementTypes == {"Node", "Way"}

ClassifiedElements ==
    {[id |-> id, element_type |-> kind, tags |-> tags, geometry |-> geometry] :
        id \in {1, 2}, kind \in ElementTypes, tags \in TagMaps,
        geometry \in {GeoNode, GeoDiagonal}}

ToTileType(element) ==
    /\ call.op = "new"
    /\ call' = [op |-> "to_tile_type", element |-> element,
                ret |-> to_tile_type(element.tags)]
    /\ UNCHANGED <<world, gridVars, nops, metadata, gen>>

NextClassify == \E element \in ClassifiedElements : ToTileType(element)

SpecClassify == Init /\ [][NextClassify]_vars

\* The rules of the classifier in their order: whether the i-th rule matches
RuleMatches(i, tags) ==
    CASE i = 1 -> \E p \in tags : p[1] = "building"
      [] i = 2 -> \E p \in tags : p[1] = "highway"
      [] i = 3 -> (\E p \in tags : p[1] = "waterway") \/ <<"natural", "water">> \in tags
      [] i = 4 -> tags \cap {<<"leisure", "park">>, <<"leisure", "garden">>,
                             <<"landuse", "forest">>, <<"landuse", "grass">>,
                             <<"natural", "wood">>} # {}
      [] i = 5 -> \E p \in tags : p[1] = "railway"
      [] i = 6 -> tags \cap {<<"amenity", "parking">>, <<"landuse", "parking">>} # {}
      [] i = 7 -> \E p \in tags : p[1] = "amenity"
      [] i = 8 -> \E p \in tags : p[1] = "tourism"
      [] i = 9 -> \E p \in tags : p[1] = "landuse"
      [] i = 10 -> TRUE

SubValue(tags, key, otherwise) ==
    LET v == (CHOOSE p \in tags : p[1] = key)[2]
    IN  CASE v = "residential" -> Residential
          [] v \in {"commercial", "retail"} -> Commercial
          [] v = "industrial" -> Industrial
          [] OTHER -> otherwise

\* and the type it gives
RuleType(i, tags) ==
    CASE i = 1 -> SubValue(tags, "building", Building)
      [] i = 2 -> Road
      [] i = 3 -> Water
      [] i = 4 -> GreenSpace
      [] i = 5 -> Railway
      [] i = 6 -> Parking
      [] i = 7 -> Amenity
      [] i = 8 -> Tourism
      [] i = 9 -> SubValue(tags, "landuse",
                           Custom("landuse_" \o (CHOOSE p \in tags : p[1] = "landuse")[2]))
      [] i = 10 -> Empty

FirstRule(tags) ==
    CHOOSE i \in 1..10 : RuleMatches(i, tags) /\ \A j \in 1..(i - 1) : ~RuleMatches(j, tags)

\* C13: to_tile_type gives the type of the first rule, in the order building,
\* highway, water, green space, railway, parking, amenity, tourism, landuse,
\* Empty, that the tag map matches, whatever the id, kind and geometry of the
\* element: building=yes with highway=residential gives Building,
\* amenity=parking gives Parking, landuse=forest gives GreenSpace, an unlisted
\* landuse value v gives Custom("landuse_v").
C13_FirstMatchingRule ==
    call.op = "to_tile_type" =>
        LET tags == call.element.tags
        IN  /\ call.ret = RuleType(FirstRule(tags), tags)
            /\ tags = {<<"building", "yes">>, <<"highway", "residential">>} =>
                   call.ret = Building
            /\ tags = {<<"amenity", "parking">>} => call.ret = Parking
            /\ tags = {<<"landuse", "forest">>} => call.ret = GreenSpace
            /\ tags = {<<"landuse", "meadow">>} => call.ret = Custom("landuse_meadow")

\* An element whose tags match the building rule and the highway rule was
\* classified.
C13_Witness ==
    /\ call.op = "to_tile_type"
    /\ call.element.tags = {<<"building", "yes">>, <<"highway", "residential">>}
    /\ call.ret = Building

\* An element that classifies as Empty, or has no geometry point
WritesNothing(element) ==
    to_tile_type(element.tags) = Empty \/ element.geometry = <<>>

C18_ReturnsZero ==
    (call.op = "rasterize_element" /\ WritesNothing(call.element)) =>
        /\ call.ret = Some(Ok(0))
        /\ gen.cells = <<>>
        /\ gen.tiles_updated = 0

C18_Frame ==
    (call'.op = "rasterize_element" /\ WritesNothing(call'.element)) =>
        /\ tiles' = tiles
        /\ gen'.total_tiles_updated = gen.total_tiles_updated

\* C18: rasterize_element on an element that classifies as Empty, or whose
\* geometry is empty, returns Ok(0), has no cell to write and leaves every
\* tile and the count of updated tiles as they were, whatever the grid holds.
C18_NothingWritten == []C18_ReturnsZero /\ [][C18_Frame]_vars

\* An element that classifies as Empty and has a geometry inside the box was
\* rasterized on a grid that holds tiles of an earlier element.
C18_Witness ==
    /\ call.op = "rasterize_element"
    /\ to_tile_type(call.element.tags) = Empty
    /\ Len(call.element.geometry) >= 2
    /\ gen.total_tiles_updated > 0
    /\ \E c \in GridCells : tiles[c[2]][c[1]].tile_type # Empty

\* The same for an element with tags and without geometry.
C18_WitnessNoGeometry ==
    /\ call.op = "rasterize_element"
    /\ to_tile_type(call.element.tags) # Empty
    /\ call.element.geometry = <<>>
    /\ gen.total_tiles_updated > 0

(***************************************************************************)
(* The general generation specification: generate_grid of a generator made *)
(* by with_max_size with any maximum size (zero, below and above the       *)
(* minimum of 10 included), on any bounding box and resolution, on data    *)
(* that is well-formed or not.                                             *)
(***************************************************************************)
PointBox == Box(F64(1), F64(1), F64(1), F64(1))

\* Generators and inputs: max_grid_size, grid_resolution, bounding box
GenConfigs ==
    {<<<<GenW, GenH>>, DefaultGridResolution, GenBox>>,
     <<<<0, 0>>, DefaultGridResolution, GenBox>>,
     <<<<0, GenH>>, DefaultGridResolution, GenBox>>,
     <<<<GenW, 0>>, 1, PointBox>>,
     <<<<MinGridSize + 2, MinGridSize + 1>>, 1, GenBox>>,
     <<<<MinGridSize + 2, MinGridSize + 1>>, DefaultGridResolution, GenBox>>,
     <<<<MinGridSize + 2, MinGridSize + 1>>, DefaultGridResolution, PointBox>>}

\* The raw elements of the data with id k: well-formed ones, and ones that
\* lack a field
RawElements(k) ==
    {RawNode(k, TagsRoad, Pt(2, 2)),
     RawNode(k, {}, Pt(2, 2)),
     RawWay(k, TagsRoad, GeoDiagonal),
     RawWay(k, TagsBuilding, GeoTriangle),
     [RawNode(k, TagsRoad, Pt(2, 2)) EXCEPT !.lat = None],
     [RawNode(k, TagsRoad, Pt(2, 2)) EXCEPT !.lon = None],
     [RawWay(k, TagsRoad, GeoDiagonal) EXCEPT !.id = None],
     [RawWay(k, TagsRoad, GeoDiagonal) EXCEPT !.type = None],
     [RawWay(k, TagsRoad, GeoDiagonal) EXCEPT !.type = Some("area")],
     [RawWay(k, TagsRoad, GeoNothing) EXCEPT !.geometry = None],
     [RawWay(k, {}, GeoNothing) EXCEPT !.geometry = None],
     [RawWay(k, TagsRoad, GeoNothing) EXCEPT
         !.geometry = None, !.lat = Some(Rat(1, 1)), !.lon = Some(Rat(1, 1))],
     [RawWay(k, TagsRoad, GeoNothing) EXCEPT
         !.geometry = Some(<<RawPoint(Some(Rat(1, 1)), Some(Rat(1, 1))),
                             RawPoint(Some(Rat(1, 1)), None)>>)]}

RECURSIVE RawLists(_)
RawLists(n) ==
    IF n = 0 THEN {<<>>}
    ELSE LET shorter == RawLists(n - 1)
         IN  shorter \cup {Append(l, e) : l \in {m \in shorter : Len(m) = n - 1},
                                          e \in RawElements(n)}

AnyData ==
    {JsonData(l) : l \in RawLists(MaxElems)}
    \cup {[format |-> "Json", raw_data |-> [json |-> "invalid"]],
          [format |-> "Json", raw_data |-> [json |-> "no elements"]],
          [format |-> "Xml", raw_data |-> [json |-> "invalid"]]}

InitGenAny ==
    /\ width = 0
    /\ height = 0
    /\ tiles = new_tiles(0, 0)
    /\ call = [op |-> "none"]
    /\ nops = 0
    /\ metadata = GridMetadata_new
    /\ meters_per_tile = F64(DefaultTileSize)
    /\ world = NoWorld
    /\ \E config \in GenConfigs :
           /\ bounding_box = config[3]
           /\ gen = [pc |-> "idle", max_grid_size |-> config[1],
                     grid_resolution |-> config[2], elements |-> <<>>,
                     next |-> 1, tile |-> Tile_default, cells |-> <<>>,
                     tiles_updated |-> 0, total_tiles_updated |-> 0, result |-> None]

CallGenerateGridAny == \E osm_data \in AnyData : GenerateGrid(osm_data)

NextGenAny == CallGenerateGridAny \/ RasterizeElement \/ WriteTile \/ FinishGrid

SpecGenAny == InitGenAny /\ [][NextGenAny]_vars

\* generate_grid has created its grid (TileGrid::new has run)
GridCreated ==
    \/ gen.pc \in {"rasterize", "done", "panicked"}
    \/ gen.pc = "failed" /\ call.op = "set_tile_with_priority"

(***************************************************************************)
(* C14: for every bounding box, grid_resolution and generator, the grid    *)
(* created by generate_grid has 10 <= width <= max_w and 10 <= height <=   *)
(* max_h; in particular it never has a zero dimension.                     *)
(* The code takes the maximum of the computed size and 10 first and the    *)
(* minimum with the generator's maximum last, so a maximum below 10 wins:  *)
(* with_max_size(0, 0) creates a grid of 0 by 0 tiles.                     *)
(***************************************************************************)
C14_DimensionsClamped ==
    GridCreated =>
        /\ MinGridSize <= width /\ width <= gen.max_grid_size[1]
        /\ MinGridSize <= height /\ height <= gen.max_grid_size[2]
        /\ width # 0 /\ height # 0

\* What the code keeps: the maximum always holds, the minimum of 10 as far
\* as the maximum allows it
C14_ClampedToMax ==
    GridCreated =>
        /\ Min(MinGridSize, gen.max_grid_size[1]) <= width
        /\ width <= gen.max_grid_size[1]
        /\ Min(MinGridSize, gen.max_grid_size[2]) <= height
        /\ height <= gen.max_grid_size[2]

\* A grid with a zero dimension is created
C14_ZeroGrid == GridCreated /\ width = 0 /\ height = 0 /\ gen.elements # <<>>

\* A generator whose maximum is above the minimum creates a grid within both
C14_WithinBoth ==
    GridCreated /\ MinGridSize <= width /\ width < gen.max_grid_size[1]

(***************************************************************************)
(* C15: generate_grid never fails with a bounds (GridGeneration) error:    *)
(* every cell index passed to set_tile_with_priority satisfies x < width   *)
(* and y < height.                                                         *)
(* On the grid of a generator built by with_max_size(0, 0) geo_to_grid     *)
(* maps a point of the box to (0, 0) when overflow is not checked, the     *)
(* write is refused and generate_grid returns a GridGeneration error; when *)
(* overflow is checked the subtraction width - 1 panics.                   *)
(***************************************************************************)
C15_NoBoundsError ==
    /\ call.op = "set_tile_with_priority" =>
           call.x < width /\ call.y < height /\ call.ret.ok
    /\ gen.pc = "failed" => Unwrap(Unwrap(gen.result).val)[1] # "GridGeneration"

\* On a grid with at least one tile every write is in range
C15_InRangeOnNonEmptyGrid ==
    (width >= 1 /\ height >= 1 /\ GridCreated) =>
        /\ call.op = "set_tile_with_priority" =>
               call.x < width /\ call.y < height /\ call.ret.ok
        /\ gen.pc \notin {"failed", "panicked"}

\* generate_grid has returned a GridGeneration error
C15_BoundsError ==
    /\ gen.pc = "failed"
    /\ call.op = "set_tile_with_priority"
    /\ call.x >= width
    /\ Unwrap(Unwrap(gen.result).val)[1] = "GridGeneration"

\* generate_grid has ended: with a grid, with an error, or in a panic
Ended == gen.pc \in {"done", "failed", "panicked"}

\* generate_grid has returned the error of the parser
ParseFailed ==
    gen.pc = "failed" /\ Unwrap(Unwrap(gen.result).val)[1] = "Parse"

\* No grid has been created
NoGrid == width = 0 /\ height = 0 /\ tiles = new_tiles(0, 0) /\ ~GridCreated

\* generate_grid has returned a grid, and every parsed element is on it
AllRasterized ==
    /\ gen.pc = "done"
    /\ gen.result = Some(Ok("grid"))
    /\ gen.next = Len(gen.elements) + 1
    /\ metadata.elements_processed = Len(gen.elements)
    /\ LET cells == cells_of(gen.elements, 1)
       IN  tiles = rasterize_elements(new_tiles(width, height), gen.elements, cells,
                                      [k \in 1..Len(gen.elements) |-> k], 1)

(***************************************************************************)
(* C19: generate_grid is all-or-nothing: if parsing fails it returns an    *)
(* error and no grid is created; otherwise it returns one grid on which    *)
(* every parsed element has been rasterized.                               *)
(* The second half fails for a generator built by with_max_size(0, 0):     *)
(* parsing succeeds and generate_grid returns a GridGeneration error (or   *)
(* panics) at the first element with a point in the box.                   *)
(***************************************************************************)
C19_AllOrNothing ==
    /\ call.op = "parse" => (~call.ret.ok <=> ParseFailed)
    /\ Ended => (ParseFailed /\ NoGrid) \/ AllRasterized

\* What the code keeps: a parse error creates no grid, and a grid is returned
\* only with every parsed element on it
C19_NoPartialGrid ==
    /\ call.op = "parse" => (~call.ret.ok <=> ParseFailed)
    /\ ParseFailed => NoGrid
    /\ (IsSome(gen.result) /\ gen.pc \notin {"failed", "panicked"}) => AllRasterized

\* Parsing succeeded and generate_grid returned an error after a first
\* element had been rasterized
C19_FailedAfterParse ==
    gen.pc = "failed" /\ ~ParseFailed /\ gen.elements # <<>>

\* The two outcomes of the claim: the second element is rejected and no grid
\* is created; two elements are parsed and both are on the returned grid
C19_RejectedSecond ==
    /\ ParseFailed
    /\ call.op = "parse"
    /\ call.osm_data.format = "Json"
    /\ call.osm_data.raw_data.json = "elements"
    /\ Len(call.osm_data.raw_data.elements) = 2
    /\ parse_json_element(call.osm_data.raw_data.elements[1]).ok

C19_GridOfTwo == AllRasterized /\ Len(gen.elements) = 2 /\ gen.total_tiles_updated > 1

\* The element lacks its id or its required geometry: lat and lon for a
\* node, the geometry array and lat and lon of its points for a way or a
\* relation
LacksRequired(element) ==
    \/ ~IsSome(element.id)
    \/ /\ element.type = Some("node")
       /\ ~IsSome(element.lat) \/ ~IsSome(element.lon)
    \/ /\ element.type \in {Some("way"), Some("relation")}
       /\ \/ ~IsSome(element.geometry)
          \/ \E k \in 1..Len(Unwrap(element.geometry)) :
                 \/ ~IsSome(Unwrap(element.geometry)[k].lat)
                 \/ ~IsSome(Unwrap(element.geometry)[k].lon)

\* The data hold an element that lacks its id or its required geometry
HasMalformed(osm_data) ==
    /\ osm_data.format = "Json"
    /\ osm_data.raw_data.json = "elements"
    /\ \E k \in 1..Len(osm_data.raw_data.elements) :
           LacksRequired(osm_data.raw_data.elements[k])

(***************************************************************************)
(* C20: an input element that is missing its id or its required geometry   *)
(* (lat/lon for a node; the geometry array, or lat/lon of one of its       *)
(* points, for a way or relation) makes parsing, and so generate_grid,     *)
(* fail with a Parse error; it is never skipped or accepted with empty     *)
(* geometry.                                                               *)
(* A way without a geometry array is accepted: with the point (lat, lon)   *)
(* when it has both, with empty geometry when it has tags, and it is       *)
(* skipped when it has neither.                                            *)
(***************************************************************************)
C20_MalformedIsFatal ==
    (call.op = "parse" /\ HasMalformed(call.osm_data)) =>
        /\ ~call.ret.ok
        /\ Unwrap(call.ret.val)[1] = "Parse"
        /\ ParseFailed

\* What the code keeps: a missing id, a node without lat or lon and a
\* geometry point without lat or lon are fatal
LacksChecked(element) ==
    \/ ~IsSome(element.id)
    \/ /\ element.type = Some("node")
       /\ ~IsSome(element.lat) \/ ~IsSome(element.lon)
    \/ /\ element.type \in {Some("way"), Some("relation")}
       /\ IsSome(element.geometry)
       /\ \E k \in 1..Len(Unwrap(element.geometry)) :
              \/ ~IsSome(Unwrap(element.geometry)[k].lat)
              \/ ~IsSome(Unwrap(element.geometry)[k].lon)

C20_CheckedIsFatal ==
    (/\ call.op = "parse"
     /\ call.osm_data.format = "Json"
     /\ call.osm_data.raw_data.json = "elements"
     /\ \E k \in 1..Len(call.osm_data.raw_data.elements) :
            LacksChecked(call.osm_data.raw_data.elements[k])) =>
        /\ ~call.ret.ok
        /\ Unwrap(call.ret.val)[1] = "Parse"
        /\ ParseFailed /\ NoGrid

\* A way without a geometry array has been accepted with empty geometry
C20_AcceptedEmpty ==
    /\ call.op = "parse"
    /\ HasMalformed(call.osm_data)
    /\ call.ret.ok
    /\ \E k \in 1..Len(gen.elements) : gen.elements[k].geometry = <<>>

\* A way without a geometry array and without tags has been skipped
C20_Skipped ==
    /\ call.op = "parse"
    /\ HasMalformed(call.osm_data)
    /\ call.ret.ok
    /\ Len(gen.elements) < Len(call.osm_data.raw_data.elements)
    /\ \A k \in 1..Len(gen.elements) : gen.elements[k].geometry # <<>>

(***************************************************************************)
(* The line specification: draw_line between any two cells of a grid of    *)
(* width, height in 1..MaxDim, on the empty grid and on a grid whose top   *)
(* row an earlier element has covered with Road.                           *)
(***************************************************************************)
DrawTiles == {Tile_new(Water), Tile_new(Building)}

\* draw_line, the loop from the k-th cell on: the writes made one after the
\* other and the count of those that changed a tile
RECURSIVE draw_line_writes(_, _, _, _, _)
draw_line_writes(ts, cells, k, tile, tiles_updated) ==
    IF k > Len(cells) THEN [tiles |-> ts, ret |-> Ok(tiles_updated)]
    ELSE LET r == set_tile_with_priority(ts, cells[k][1], cells[k][2], tile)
         IN  IF ~r.ret.ok THEN [tiles |-> r.tiles,
                                ret |-> Err(GridGeneration(Unwrap(r.ret.val)))]
             ELSE draw_line_writes(r.tiles, cells, k + 1, tile,
                                   IF Unwrap(r.ret.val) THEN tiles_updated + 1
                                   ELSE tiles_updated)

InitDraw ==
    /\ width \in 1..MaxDim
    /\ height \in 1..MaxDim
    /\ bounding_box = GenBox
    /\ tiles = new_tiles(width, height)
    /\ call = [op |-> "new"]
    /\ nops = 0
    /\ metadata = GridMetadata_new
    /\ meters_per_tile = F64(DefaultTileSize)
    /\ world = NoWorld
    /\ gen = NoGenerator

DrawLine(x1, y1, x2, y2, tile) ==
    LET cells == draw_line(x1, y1, x2, y2)
        r == draw_line_writes(tiles, cells, 1, tile, 0)
    IN  /\ tiles' = r.tiles
        /\ call' = [op |-> "draw_line", x1 |-> x1, y1 |-> y1, x2 |-> x2, y2 |-> y2,
                    tile |-> tile, cells |-> cells, before |-> tiles, ret |-> r.ret,
                    run |-> draw_line_run(x1, y1, x2, y2, Abs(x2 - x1), Abs(y2 - y1),
                                          IF x1 < x2 THEN 1 ELSE -1,
                                          IF y1 < y2 THEN 1 ELSE -1,
                                          Abs(x2 - x1) - Abs(y2 - y1), 0,
                                          2 * (width + height))]
        /\ UNCHANGED <<world, width, height, bounding_box, meters_per_tile, metadata, gen>>

\* An earlier element: a Road along the top row
DrawTopRow ==
    /\ call.op = "new"
    /\ DrawLine(0, 0, width - 1, 0, Tile_new(Road))
    /\ nops' = nops

\* The line of the element: any two cells of the grid
CallDrawLine ==
    /\ nops = 0
    /\ nops' = 1
    /\ \E x1 \in 0..(width - 1), y1 \in 0..(height - 1),
          x2 \in 0..(width - 1), y2 \in 0..(height - 1), tile \in DrawTiles :
           DrawLine(x1, y1, x2, y2, tile)

NextDraw == DrawTopRow \/ CallDrawLine

SpecDraw == InitDraw /\ [][NextDraw]_vars

\* The line of the element has been drawn
DrawCall == call.op = "draw_line" /\ nops = 1

CellSet(cells) == {cells[k] : k \in 1..Len(cells)}

(***************************************************************************)
(* C16: for any two in-range cells draw_line writes, subject to priority   *)
(* gating, a sequence of cells that starts at the first cell, ends at the  *)
(* second, and in which each cell differs from its predecessor by at most  *)
(* 1 in x and in y and is not equal to it; on an empty grid every cell of  *)
(* the sequence holds the element's tile type afterwards and no other cell *)
(* is changed.                                                             *)
(***************************************************************************)
C16_ConnectedLine ==
    DrawCall =>
        LET cells == call.cells
        IN  /\ cells # <<>>
            /\ cells[1] = <<call.x1, call.y1>>
            /\ cells[Len(cells)] = <<call.x2, call.y2>>
            /\ \A k \in 2..Len(cells) :
                   /\ Abs(cells[k][1] - cells[k - 1][1]) <= 1
                   /\ Abs(cells[k][2] - cells[k - 1][2]) <= 1
                   /\ cells[k] # cells[k - 1]
            /\ \A x \in 0..(width - 1), y \in 0..(height - 1) :
                   tiles[y][x] =
                       IF /\ <<x, y>> \in CellSet(cells)
                          /\ can_be_overwritten_by(call.before[y][x], call.tile)
                       THEN call.tile
                       ELSE call.before[y][x]
            /\ call.before = new_tiles(width, height) =>
                   /\ \A c \in CellSet(cells) : tiles[c[2]][c[1]].tile_type = call.tile.tile_type
                   /\ call.ret = Ok(Len(cells))

\* A line that is neither axis-parallel nor diagonal, on the empty grid
C16_Witness ==
    /\ DrawCall
    /\ call.before = new_tiles(width, height)
    /\ Abs(call.x2 - call.x1) = 2
    /\ Abs(call.y2 - call.y1) = 1
    /\ Len(call.cells) = 3
    /\ tiles[call.y2][call.x2] = call.tile

\* A line over the Road of the top row: Water gives way on the cells they share
C16_WitnessGated ==
    /\ DrawCall
    /\ call.tile = Tile_new(Water)
    /\ \E c \in CellSet(call.cells) : tiles[c[2]][c[1]].tile_type = Road
    /\ \E c \in CellSet(call.cells) : tiles[c[2]][c[1]].tile_type = Water

\* C15, the part on draw_line: between in-range endpoints the stepped
\* coordinates never go negative and never leave the rectangle spanned by the
\* endpoints, so no step is dropped: the sequence has max(dx, dy) + 1 cells
C15_StaysInRectangle ==
    DrawCall =>
        /\ Len(call.cells) = Max(Abs(call.x2 - call.x1), Abs(call.y2 - call.y1)) + 1
        /\ \A c \in CellSet(call.cells) :
               /\ Min(call.x1, call.x2) <= c[1] /\ c[1] <= Max(call.x1, call.x2)
               /\ Min(call.y1, call.y2) <= c[2] /\ c[2] <= Max(call.y1, call.y2)
        /\ call.ret.ok

(***************************************************************************)
(* The rasterizer specification: rasterize_element of one way of any tile  *)
(* type and any geometry of up to MaxPts points, left open or closed by    *)
(* its first point, onto the empty grid of GenW by GenH tiles over GenBox.  *)
(***************************************************************************)
MaxPts == 3         \* points of one geometry, the closing point apart

\* Three corners of the box, and a point outside it
RasterPoints == {Pt(0, 0), Pt(0, 4), Pt(4, 0), Pt(2, 6)}

RECURSIVE GeometriesUpTo(_)
GeometriesUpTo(n) ==
    IF n = 0 THEN {<<>>}
    ELSE LET shorter == GeometriesUpTo(n - 1)
         IN  shorter \cup {Append(g, p) : g \in {h \in shorter : Len(h) = n - 1},
                                          p \in RasterPoints}

\* The geometries: open, and polygons closed by their first point
RasterGeometries ==
    GeometriesUpTo(MaxPts)
    \cup {Append(g, g[1]) : g \in {h \in GeometriesUpTo(MaxPts) : Len(h) >= 3}}

\* One tag map for each tile type, Empty included
RasterTags ==
    {{<<"building", "yes">>}, {<<"building", "residential">>},
     {<<"landuse", "retail">>}, {<<"landuse", "industrial">>},
     {<<"natural", "water">>}, {<<"leisure", "park">>}, {<<"amenity", "parking">>},
     {<<"highway", "residential">>}, {<<"railway", "rail">>},
     {<<"amenity", "cafe">>}, {<<"tourism", "hotel">>}, {<<"landuse", "meadow">>},
     {<<"name", "somewhere">>}}

InitRaster ==
    /\ width = GenW
    /\ height = GenH
    /\ bounding_box = GenBox
    /\ tiles = new_tiles(width, height)
    /\ call = [op |-> "new"]
    /\ nops = 0
    /\ metadata = GridMetadata_new
    /\ meters_per_tile = F64(DefaultTileSize)
    /\ world = NoWorld
    /\ gen = NoGenerator

\* DefaultGridGenerator::rasterize_element on the grid
Rasterize(element) ==
    /\ call.op = "new"
    /\ LET r == draw_line_writes(tiles, rasterize_element(element), 1,
                                 element_tile(element), 0)
       IN  /\ tiles' = r.tiles
           /\ call' = [op |-> "rasterize_element", element |-> element, ret |-> r.ret]
    /\ UNCHANGED <<world, width, height, bounding_box, meters_per_tile, nops, metadata, gen>>

CallRasterize ==
    \E tags \in RasterTags, geometry \in RasterGeometries :
        Rasterize([id |-> 1, element_type |-> "Way", tags |-> tags,
                   geometry |-> geometry])

NextRaster == CallRasterize

SpecRaster == InitRaster /\ [][NextRaster]_vars

\* The cells that hold a tile
Written == {c \in GridCells : tiles[c[2]][c[1]] # Tile_default}

\* The cells of the line segments of a geometry: of each pair of consecutive
\* points that both lie in the box, the cells of draw_line between their
\* cells; of a single point, its cell
LineCells(geometry) ==
    IF Len(geometry) = 1
    THEN {Unwrap(MapPoint(geometry[k])) :
             k \in {i \in {1} : IsSome(MapPoint(geometry[i]))}}
    ELSE UNION {CellSet(draw_line(Unwrap(MapPoint(geometry[k]))[1],
                                  Unwrap(MapPoint(geometry[k]))[2],
                                  Unwrap(MapPoint(geometry[k + 1]))[1],
                                  Unwrap(MapPoint(geometry[k + 1]))[2])) :
                   k \in {i \in 1..(Len(geometry) - 1) :
                             IsSome(MapPoint(geometry[i]))
                             /\ IsSome(MapPoint(geometry[i + 1]))}}

\* The cells of the vertices that lie in the box
VertexCells(geometry) ==
    {Unwrap(MapPoint(geometry[k])) :
        k \in {i \in 1..Len(geometry) : IsSome(MapPoint(geometry[i]))}}

\* The grid-space bounding rectangle of the vertices that lie in the box
VertexRectangle(geometry) ==
    LET vs == VertexCells(geometry)
    IN  {c \in GridCells : /\ \E v \in vs : v[1] <= c[1]
                           /\ \E v \in vs : v[1] >= c[1]
                           /\ \E v \in vs : v[2] <= c[2]
                           /\ \E v \in vs : v[2] >= c[2]}

\* The center of the cell (x, y): (lat, lon)
CellCenter(x, y) ==
    <<FSub(bounding_box.north,
           FMul(Rat(2 * y + 1, 2 * height), bbox_height(bounding_box))),
      FAdd(bounding_box.west,
           FMul(Rat(2 * x + 1, 2 * width), bbox_width(bounding_box)))>>

\* The cells of the rectangle whose center is inside the polygon
InteriorCells(geometry) ==
    {c \in VertexRectangle(geometry) :
        LET center == CellCenter(c[1], c[2])
        IN  point_in_polygon(center[1], center[2], geometry)}

FilledTypes ==
    {Building, Water, GreenSpace, Parking, Residential, Commercial, Industrial}

C17_WitnessNotFilled ==
    /\ call.op = "rasterize_element"
    /\ to_tile_type(call.element.tags) = Road
    /\ Len(call.element.geometry) = 4
    /\ call.element.geometry[1] = call.element.geometry[4]
    /\ \E c \in InteriorCells(call.element.geometry) \ LineCells(call.element.geometry) :
           tiles[c[2]][c[1]].tile_type = Empty

\* A polygon with a vertex outside the box: the fill stays in the rectangle
\* of the vertices inside
C17_WitnessLeaving ==
    /\ call.op = "rasterize_element"
    /\ to_tile_type(call.element.tags) = Water
    /\ \E k \in 1..Len(call.element.geometry) : ~IsSome(MapPoint(call.element.geometry[k]))
    /\ InteriorCells(call.element.geometry) \ LineCells(call.element.geometry) # {}
    /\ VertexRectangle(call.element.geometry) # GridCells

(***************************************************************************)
(* C21: after generate_grid, metadata.tiles_populated equals the number of *)
(* non-empty tiles of the returned grid (statistics().non_empty_tiles),    *)
(* for every element list, including lists in which a higher-priority      *)
(* element is drawn over cells a lower-priority one has written.           *)
(* generate_grid adds up the writes that succeeded, so a cell written by a *)
(* Road and then by a Building over it is counted twice.                   *)
(***************************************************************************)
C21_PopulatedIsNonEmpty ==
    gen.pc = "done" => metadata.tiles_populated = statistics(tiles).non_empty_tiles

\* The cells written more than once: by two elements, the later of a higher
\* priority
Rewritten ==
    {c \in GridCells :
        \E i \in 1..Len(gen.elements), j \in 1..Len(gen.elements) :
            /\ i < j
            /\ c \in Covers(GenCells[i]) \cap Covers(GenCells[j])
            /\ priority(ElementType(gen.elements[j])) > priority(ElementType(gen.elements[i]))}

\* What the code keeps: the two are equal when no cell is written twice
C21_EqualWithoutRewrite ==
    (gen.pc = "done" /\ Rewritten = {}) =>
        metadata.tiles_populated = statistics(tiles).non_empty_tiles

\* A Building drawn over the cells of a Road: more writes than non-empty tiles
C21_CountedTwice ==
    /\ gen.pc = "done"
    /\ Rewritten # {}
    /\ metadata.tiles_populated > statistics(tiles).non_empty_tiles

(***************************************************************************)
(* The serialization specification: serde_json::to_string of a TileGrid    *)
(* and serde_json::from_str of the result.  The types derive Serialize and *)
(* Deserialize (tile_grid.rs 7, 113, 134, 173, 190; region.rs 5): a struct *)
(* is a JSON object of its fields, a Vec an array, a HashMap an object, an *)
(* Option null or its value, a unit variant of TileType its name, Custom   *)
(* an object with the one key "Custom".  serde_json writes a float that is *)
(* NaN or infinite as null, and reading a float from null is an error.     *)
(* A JSON value is a record of its kind j and its value v.                 *)
(***************************************************************************)
JNull == [j |-> "null"]
JInt(i) == [j |-> "int", v |-> i]
JFloat(a) == [j |-> "float", v |-> a]
JStr(s) == [j |-> "str", v |-> s]
JArr(a) == [j |-> "arr", v |-> a]
JObj(o) == [j |-> "obj", v |-> o]

\* f32 and f64: Serialize
ser_float(a) == IF IsNum(a) THEN JFloat(a) ELSE JNull

\* f32 and f64: Deserialize
de_float(v) ==
    IF v.j = "float" THEN Ok(v.v)
    ELSE IF v.j = "int" THEN Ok(F64(v.v))
    ELSE Err("invalid type: expected a float")

\* TileType: Serialize
ser_TileType(t) == IF IsCustom(t) THEN JObj([Custom |-> JStr(t[2])]) ELSE JStr(t[1])

\* TileType: Deserialize
de_TileType(v) ==
    IF v.j = "str" /\ <<v.v>> \in TileType THEN Ok(<<v.v>>)
    ELSE IF v.j = "obj" /\ DOMAIN v.v = {"Custom"} /\ v.v.Custom.j = "str"
    THEN Ok(Custom(v.v.Custom.v))
    ELSE Err("unknown variant")

\* HashMap<String, String>: Serialize and Deserialize
ser_tags(tags) == JObj({<<p[1], JStr(p[2])>> : p \in tags})
de_tags(v) ==
    IF v.j = "obj" /\ \A p \in v.v : p[2].j = "str"
    THEN Ok({<<p[1], p[2].v>> : p \in v.v})
    ELSE Err("invalid type: expected a map of strings")

\* TileMetadata: Serialize
ser_TileMetadata(m) ==
    JObj([osm_ids |-> JArr([k \in 1..Len(m.osm_ids) |-> JInt(m.osm_ids[k])]),
          tags |-> ser_tags(m.tags),
          confidence |-> ser_float(m.confidence)])

\* TileMetadata: Deserialize
de_TileMetadata(v) ==
    LET tags == de_tags(v.v.tags)
        confidence == de_float(v.v.confidence)
    IN  IF ~tags.ok THEN tags
        ELSE IF ~confidence.ok THEN confidence
        ELSE Ok([osm_ids |-> [k \in 1..Len(v.v.osm_ids.v) |-> v.v.osm_ids.v[k].v],
                 tags |-> Unwrap(tags.val),
                 confidence |-> Unwrap(confidence.val)])

\* Tile: Serialize
ser_Tile(tile) ==
    JObj([tile_type |-> ser_TileType(tile.tile_type),
          metadata |-> IF IsSome(tile.metadata)
                       THEN ser_TileMetadata(Unwrap(tile.metadata))
                       ELSE JNull])

\* Tile: Deserialize
de_Tile(v) ==
    LET tile_type == de_TileType(v.v.tile_type)
        meta == IF v.v.metadata.j = "null" THEN Ok(None)
                ELSE LET m == de_TileMetadata(v.v.metadata)
                     IN  IF m.ok THEN Ok(Some(Unwrap(m.val))) ELSE m
    IN  IF ~tile_type.ok THEN tile_type
        ELSE IF ~meta.ok THEN meta
        ELSE Ok([tile_type |-> Unwrap(tile_type.val), metadata |-> Unwrap(meta.val)])

\* BoundingBox: Serialize
ser_BoundingBox(b) ==
    JObj([south |-> ser_float(b.south), west |-> ser_float(b.west),
          north |-> ser_float(b.north), east |-> ser_float(b.east)])

\* BoundingBox: Deserialize
de_BoundingBox(v) ==
    LET south == de_float(v.v.south)
        west == de_float(v.v.west)
        north == de_float(v.v.north)
        east == de_float(v.v.east)
    IN  IF ~south.ok THEN south
        ELSE IF ~west.ok THEN west
        ELSE IF ~north.ok THEN north
        ELSE IF ~east.ok THEN east
        ELSE Ok(Box(Unwrap(south.val), Unwrap(west.val), Unwrap(north.val),
                    Unwrap(east.val)))

\* GridMetadata: Serialize and Deserialize (the fields of the model)
ser_GridMetadata(m) ==
    JObj([elements_processed |-> JInt(m.elements_processed),
          tiles_populated |-> JInt(m.tiles_populated),
          algorithm |-> JStr(m.algorithm)])
de_GridMetadata(v) ==
    Ok([elements_processed |-> v.v.elements_processed.v,
        tiles_populated |-> v.v.tiles_populated.v,
        algorithm |-> v.v.algorithm.v])

\* Vec<Vec<Tile>>: Serialize; the rows and the tiles of a row are indexed from 0
ser_tiles(ts) ==
    JArr([r \in 1..VecLen(ts) |->
             JArr([c \in 1..VecLen(ts[r - 1]) |-> ser_Tile(ts[r - 1][c - 1])])])

\* Vec<Vec<Tile>>: Deserialize
de_tiles(v) ==
    LET cells == UNION {{<<r, c>> : c \in 1..Len(v.v[r].v)} : r \in 1..Len(v.v)}
        bad == {rc \in cells : ~de_Tile(v.v[rc[1]].v[rc[2]]).ok}
    IN  IF bad # {}
        THEN LET rc == CHOOSE b \in bad : \A o \in bad :
                           b[1] < o[1] \/ (b[1] = o[1] /\ b[2] <= o[2])
             IN  de_Tile(v.v[rc[1]].v[rc[2]])
        ELSE Ok([r \in 0..(Len(v.v) - 1) |->
                    [c \in 0..(Len(v.v[r + 1].v) - 1) |->
                        Unwrap(de_Tile(v.v[r + 1].v[c + 1]).val)]])

\* The TileGrid of the state
TileGrid ==
    [tiles |-> tiles, width |-> width, height |-> height,
     bounding_box |-> bounding_box, meters_per_tile |-> meters_per_tile,
     metadata |-> metadata]

\* TileGrid: Serialize (serde_json::to_string)
to_string(grid) ==
    JObj([tiles |-> ser_tiles(grid.tiles),
          width |-> JInt(grid.width),
          height |-> JInt(grid.height),
          bounding_box |-> ser_BoundingBox(grid.bounding_box),
          meters_per_tile |-> ser_float(grid.meters_per_tile),
          metadata |-> ser_GridMetadata(grid.metadata)])

\* TileGrid: Deserialize (serde_json::from_str); the fields are read in the
\* order of the object
from_str(v) ==
    LET ts == de_tiles(v.v.tiles)
        bbox == de_BoundingBox(v.v.bounding_box)
        meters == de_float(v.v.meters_per_tile)
        meta == de_GridMetadata(v.v.metadata)
    IN  IF ~ts.ok THEN ts
        ELSE IF ~bbox.ok THEN bbox
        ELSE IF ~meters.ok THEN meters
        ELSE Ok([tiles |-> Unwrap(ts.val), width |-> v.v.width.v,
                 height |-> v.v.height.v, bounding_box |-> Unwrap(bbox.val),
                 meters_per_tile |-> Unwrap(meters.val),
                 metadata |-> Unwrap(meta.val)])

\* meters_per_tile of TileGrid::new: 10.0 as in the tests, and what
\* calculate_meters_per_tile gives for a grid without tiles
JsonMeters == {F64(DefaultTileSize), Inf(1), NaN}

\* The bounding boxes of TileGrid::new: BoundingBox::new takes any f64
JsonBoxes == {Box(F64(0), F64(0), F64(1), F64(1)), Box(F64(0), F64(0), Rat(1, 2), Inf(1))}

\* The tiles set: plain, Custom, with metadata, with a confidence that is NaN
JsonTiles ==
    {Tile_new(Road), Tile_new(Custom("landuse_meadow")),
     Tile_with_metadata(Building, TileMetadata(<<1, 2>>, {<<"building", "yes">>})),
     Tile_with_metadata(Water, [TileMetadata(<<3>>, {}) EXCEPT !.confidence = NaN])}

\* TileGrid::new(GridW, GridH, bbox, meters_per_tile)
InitJson ==
    /\ width = GridW
    /\ height = GridH
    /\ bounding_box \in JsonBoxes
    /\ meters_per_tile \in JsonMeters
    /\ world = NoWorld
    /\ tiles = new_tiles(GridW, GridH)
    /\ call = [op |-> "new"]
    /\ nops = 0
    /\ metadata = GridMetadata_new
    /\ gen = NoGenerator

JsonSetTile ==
    /\ nops < MaxOps
    /\ \E c \in CoordArgs, t \in JsonTiles : SetTile(c[1], c[2], t)

\* serde_json::to_string(&grid), then serde_json::from_str of the text
RoundTrip ==
    /\ call.op # "round_trip"
    /\ call' = [op |-> "round_trip", json |-> to_string(TileGrid),
                ret |-> from_str(to_string(TileGrid))]
    /\ UNCHANGED <<world, gridVars, nops, metadata, gen>>

NextJson == JsonSetTile \/ RoundTrip

SpecJson == InitJson /\ [][NextJson]_vars

(***************************************************************************)
(* C22: serializing a TileGrid to JSON and deserializing it gives back a   *)
(* grid with the same dimensions, bounding box, meters_per_tile and        *)
(* generation metadata and, at every cell, the same tile type (the name of *)
(* a Custom included) and the same tile metadata (ids, tag map,            *)
(* confidence).                                                            *)
(* A float that is NaN or infinite is written as null, and from_str then   *)
(* returns an error instead of a grid.                                     *)
(***************************************************************************)
C22_RoundTrip ==
    call.op = "round_trip" =>
        /\ call.ret.ok
        /\ LET grid == Unwrap(call.ret.val)
           IN  /\ <<grid.width, grid.height>> = dimensions
               /\ grid.bounding_box = bounding_box
               /\ grid.meters_per_tile = meters_per_tile
               /\ grid.metadata = metadata
               /\ \A x \in 0..(width - 1), y \in 0..(height - 1) :
                      /\ grid.tiles[y][x].tile_type = tiles[y][x].tile_type
                      /\ grid.tiles[y][x].metadata = tiles[y][x].metadata

\* Every float of the grid is finite
FiniteFloats ==
    /\ IsNum(meters_per_tile)
    /\ IsNum(bounding_box.south) /\ IsNum(bounding_box.west)
    /\ IsNum(bounding_box.north) /\ IsNum(bounding_box.east)
    /\ \A x \in 0..(width - 1), y \in 0..(height - 1) :
           IsSome(tiles[y][x].metadata) => IsNum(Unwrap(tiles[y][x].metadata).confidence)

\* What the code keeps: a grid whose floats are all finite comes back whole
C22_FiniteRoundTrip ==
    (call.op = "round_trip" /\ FiniteFloats) =>
        /\ call.ret.ok
        /\ Unwrap(call.ret.val) = TileGrid

\* A grid with a Custom tile and a tile with metadata has come back whole
C22_CameBack ==
    /\ call.op = "round_trip"
    /\ call.ret.ok
    /\ Unwrap(call.ret.val) = TileGrid
    /\ \E x \in 0..(width - 1), y \in 0..(height - 1) : IsCustom(tiles[y][x].tile_type)
    /\ \E x \in 0..(width - 1), y \in 0..(height - 1) : IsSome(tiles[y][x].metadata)

\* from_str has returned an error for the text to_string made
C22_NotRead ==
    /\ call.op = "round_trip"
    /\ ~call.ret.ok
    /\ ~IsNum(meters_per_tile)
    /\ tiles = new_tiles(width, height)

(***************************************************************************)
(* The concurrency specification: two generate_grid calls on one generator *)
(* (&self), each with its own data, their steps interleaved write by       *)
(* write.  The generator holds the parser, which has no fields, and        *)
(* max_grid_size; each call makes its own grid with TileGrid::new.  Both   *)
(* calls are given the same bounding box and configuration, so their grids *)
(* have the same dimensions, held once in width and height; tiles and      *)
(* metadata hold one grid per call, gen.frame the locals of each call.     *)
(***************************************************************************)
Calls == {1, 2}

\* One grid for both calls instead of one for each.
grid_of_shared(c) == 1

\* generate_grid: `let mut grid = TileGrid::new(..)`, the grid of the call c
grid_of(c) == c

\* The data of the two calls
TwoData ==
    {JsonData(<<RawWay(1, TagsRoad, GeoDiagonal)>>),
     JsonData(<<RawWay(1, TagsBuilding, GeoTriangle), RawNode(2, TagsRoad, Pt(2, 2))>>),
     JsonData(<<RawNode(1, TagsIndustrial, Pt(2, 2))>>),
     [format |-> "Json", raw_data |-> [json |-> "invalid"]]}

InitTwo ==
    /\ width = 0
    /\ height = 0
    /\ bounding_box = GenBox
    /\ meters_per_tile = F64(DefaultTileSize)
    /\ world = NoWorld
    /\ tiles = [g \in Calls |-> new_tiles(0, 0)]
    /\ metadata = [g \in Calls |-> GridMetadata_new]
    /\ call = [op |-> "none", caller |-> 0]
    /\ nops = 0
    /\ gen = [max_grid_size |-> <<GenW, GenH>>,
              grid_resolution |-> DefaultGridResolution,
              frame |-> [c \in Calls |->
                            [pc |-> "idle", elements |-> <<>>, next |-> 1,
                             tile |-> Tile_default, cells |-> <<>>,
                             total_tiles_updated |-> 0, result |-> None]]]

\* generate_grid of the call c, lines 289-320: parse, dimensions, TileGrid::new
TwoGenerateGrid(c, osm_data) ==
    /\ gen.frame[c].pc = "idle"
    /\ LET parsed == parse(osm_data)
           dims == calculate_grid_dimensions(bounding_box, gen.grid_resolution,
                                             gen.max_grid_size)
       IN  /\ call' = [op |-> "parse", caller |-> c, osm_data |-> osm_data]
           /\ IF parsed.ok
              THEN /\ width' = dims[1]
                   /\ height' = dims[2]
                   /\ meters_per_tile' = calculate_meters_per_tile(bounding_box, dims)
                   /\ tiles' = [tiles EXCEPT ![grid_of(c)] = new_tiles(dims[1], dims[2])]
                   /\ metadata' = [metadata EXCEPT ![grid_of(c)] = GridMetadata_new]
                   /\ gen' = [gen EXCEPT !.frame[c].pc = "rasterize",
                                         !.frame[c].elements = Unwrap(parsed.val)]
              ELSE /\ gen' = [gen EXCEPT !.frame[c].pc = "failed",
                                         !.frame[c].result = Some(parsed)]
                   /\ UNCHANGED <<world, width, height, meters_per_tile, tiles, metadata>>
    /\ UNCHANGED <<world, bounding_box, nops>>

\* generate_grid of the call c, line 322: rasterize_element of the next
\* element, up to its first write
TwoRasterizeElement(c) ==
    /\ gen.frame[c].pc = "rasterize"
    /\ gen.frame[c].cells = <<>>
    /\ gen.frame[c].next <= Len(gen.frame[c].elements)
    /\ LET element == gen.frame[c].elements[gen.frame[c].next]
       IN  /\ gen' = [gen EXCEPT !.frame[c].tile = element_tile(element),
                                 !.frame[c].cells = rasterize_element(element),
                                 !.frame[c].next = @ + 1]
           /\ call' = [op |-> "rasterize_element", caller |-> c, element |-> element]
    /\ UNCHANGED <<world, gridVars, nops, metadata>>

\* One set_tile_with_priority of the call c on its grid
TwoWriteTile(c) ==
    /\ gen.frame[c].pc = "rasterize"
    /\ gen.frame[c].cells # <<>>
    /\ LET x == Head(gen.frame[c].cells)[1]
           y == Head(gen.frame[c].cells)[2]
           r == set_tile_with_priority(tiles[grid_of(c)], x, y, gen.frame[c].tile)
       IN  /\ tiles' = [tiles EXCEPT ![grid_of(c)] = r.tiles]
           /\ call' = [op |-> "set_tile_with_priority", caller |-> c, x |-> x, y |-> y,
                       ret |-> r.ret]
           /\ gen' = IF r.ret.ok
                     THEN [gen EXCEPT
                              !.frame[c].cells = Tail(@),
                              !.frame[c].total_tiles_updated =
                                  IF Unwrap(r.ret.val) THEN @ + 1 ELSE @]
                     ELSE [gen EXCEPT
                              !.frame[c].pc = "failed",
                              !.frame[c].result =
                                  Some(Err(GridGeneration(Unwrap(r.ret.val))))]
    /\ UNCHANGED <<world, width, height, bounding_box, meters_per_tile, nops, metadata>>

\* generate_grid of the call c, lines 326-350: the metadata; its grid is
\* returned
TwoFinishGrid(c) ==
    /\ gen.frame[c].pc = "rasterize"
    /\ gen.frame[c].cells = <<>>
    /\ gen.frame[c].next > Len(gen.frame[c].elements)
    /\ metadata' = [metadata EXCEPT
                       ![grid_of(c)] =
                           [@ EXCEPT
                               !.elements_processed = Len(gen.frame[c].elements),
                               !.tiles_populated = gen.frame[c].total_tiles_updated,
                               !.algorithm = "default_rasterization"]]
    /\ gen' = [gen EXCEPT !.frame[c].pc = "done",
                          !.frame[c].result = Some(Ok(grid_of(c)))]
    /\ call' = [op |-> "generate_grid", caller |-> c]
    /\ UNCHANGED <<world, gridVars, nops>>

CallTwoGenerateGrid == \E c \in Calls, osm_data \in TwoData : TwoGenerateGrid(c, osm_data)
CallTwoRasterizeElement == \E c \in Calls : TwoRasterizeElement(c)
CallTwoWriteTile == \E c \in Calls : TwoWriteTile(c)
CallTwoFinishGrid == \E c \in Calls : TwoFinishGrid(c)

NextTwo ==
    \/ CallTwoGenerateGrid
    \/ CallTwoRasterizeElement
    \/ CallTwoWriteTile
    \/ CallTwoFinishGrid

SpecTwo == InitTwo /\ [][NextTwo]_vars

\* The tiles generate_grid returns for the elements when it runs alone
TilesAlone(elements) ==
    rasterize_elements(new_tiles(width, height), elements, cells_of(elements, 1),
                       [k \in 1..Len(elements) |-> k], 1)

\* A call that has returned a grid has returned the tiles it returns alone;
\* a call whose parsing failed has made no grid
C23_SameAsAlone ==
    \A c \in Calls :
        /\ gen.frame[c].pc = "done" =>
               /\ gen.frame[c].result = Some(Ok(c))
               /\ tiles[c] = TilesAlone(gen.frame[c].elements)
               /\ metadata[c].elements_processed = Len(gen.frame[c].elements)
        /\ gen.frame[c].pc \in {"idle", "failed"} => tiles[c] = new_tiles(0, 0)

\* A step of one call changes neither the grid nor the locals of the other
C23_Frame ==
    \A c \in Calls :
        call'.caller # c =>
            /\ tiles'[c] = tiles[c]
            /\ metadata'[c] = metadata[c]
            /\ gen'.frame[c] = gen.frame[c]

(***************************************************************************)
(* C23: two generate_grid calls running concurrently on the same generator *)
(* with independent inputs share no mutable state: under every             *)
(* interleaving each call returns the tiles it returns when run alone, and *)
(* no write of one call lands in the other call's grid.                    *)
(***************************************************************************)
C23_Independent == []C23_SameAsAlone /\ [][C23_Frame]_vars

\* Both calls have returned, different grids, and they wrote in turns
C23_Witness ==
    /\ gen.frame[1].pc = "done"
    /\ gen.frame[2].pc = "done"
    /\ tiles[1] # tiles[2]
    /\ \E x \in 0..(width - 1), y \in 0..(height - 1) :
           /\ tiles[1][y][x].tile_type = Road
           /\ tiles[2][y][x].tile_type = Building

\* The calls are both in the middle of their writes
C23_WitnessInterleaved ==
    /\ gen.frame[1].pc = "rasterize"
    /\ gen.frame[2].pc = "rasterize"
    /\ gen.frame[1].cells # <<>>
    /\ gen.frame[2].cells # <<>>
    /\ gen.frame[1].total_tiles_updated > 0
    /\ gen.frame[2].total_tiles_updated > 0

(***************************************************************************)
(* C24: draw_line terminates for every pair of in-range endpoints, equal   *)
(* endpoints and horizontal, vertical and diagonal lines included: its     *)
(* loop reaches (x2, y2) after exactly max(|x2-x1|, |y2-y1|) steps, so it  *)
(* visits max(|x2-x1|, |y2-y1|) + 1 cells.                                 *)
(***************************************************************************)
C24_Terminates ==
    call.op = "draw_line" =>
        LET longest == Max(Abs(call.x2 - call.x1), Abs(call.y2 - call.y1))
        IN  /\ call.run.reached
            /\ call.run.steps = longest
            /\ Len(call.cells) = longest + 1
            /\ Cardinality(CellSet(call.cells)) = longest + 1

\* The longest line of the largest grid, neither axis-parallel nor diagonal
C24_Witness ==
    /\ DrawCall
    /\ width = MaxDim /\ height = MaxDim
    /\ Abs(call.x2 - call.x1) = MaxDim - 1
    /\ Abs(call.y2 - call.y1) = 1
    /\ call.run.steps = MaxDim - 1

\* Equal endpoints: no step, one cell
C24_WitnessPoint ==
    /\ DrawCall
    /\ call.x1 = call.x2 /\ call.y1 = call.y2
    /\ call.run = [reached |-> TRUE, steps |-> 0]
    /\ Len(call.cells) = 1

\* A vertical line drawn upwards
C24_WitnessVertical ==
    /\ DrawCall
    /\ call.x1 = call.x2 /\ call.y1 > call.y2 + 1
    /\ call.run.reached


(***************************************************************************)
(* C25: a line segment is drawn only when both of its endpoints lie inside *)
(* the grid's bounding box.  A segment with an endpoint outside writes no  *)
(* tile at all (it is not clipped to the box) and a single-point element   *)
(* outside the box writes nothing; in both cases rasterize_element returns *)
(* Ok.  The cells written by the outline of an element are exactly the     *)
(* cells of draw_line between the consecutive points that are both inside; *)
(* only the interior fill of a filled type adds cells to them.             *)
(***************************************************************************)
InsideBox(pt) == contains(bounding_box, pt[1], pt[2])

\* The indices k of the segments (k, k + 1) with both endpoints in the box
DrawnSegments(geometry) ==
    {k \in 1..(Len(geometry) - 1) :
        InsideBox(geometry[k]) /\ InsideBox(geometry[k + 1])}

\* The cells of draw_line between the cells of the points k and k + 1
SegmentCells(geometry, k) ==
    LET a == Unwrap(geo_to_grid(geometry[k][1], geometry[k][2], FALSE))
        b == Unwrap(geo_to_grid(geometry[k + 1][1], geometry[k + 1][2], FALSE))
    IN  CellSet(draw_line(a[1], a[2], b[1], b[2]))

C25_BothEndpointsInside ==
    call.op = "rasterize_element" =>
        LET geometry == call.element.geometry
            tile_type == to_tile_type(call.element.tags)
            filled == tile_type \in FilledTypes /\ Len(geometry) >= 3
            drawn == DrawnSegments(geometry)
            segments == UNION {SegmentCells(geometry, k) : k \in drawn}
        IN  /\ call.ret.ok
            /\ (Len(geometry) = 1 /\ ~InsideBox(geometry[1])) =>
                   Written = {} /\ call.ret = Ok(0)
            /\ (Len(geometry) >= 2 /\ drawn = {} /\ ~filled) =>
                   Written = {} /\ call.ret = Ok(0)
            /\ (Len(geometry) >= 2 /\ tile_type # Empty /\ ~filled) =>
                   Written = segments
            /\ (Len(geometry) >= 2 /\ tile_type # Empty /\ filled) =>
                   /\ segments \subseteq Written
                   /\ Written \ InteriorCells(geometry) \subseteq segments

\* A road from a point inside the box to a point outside: nothing is
\* written, and the call is Ok(0)
C25_Witness ==
    /\ call.op = "rasterize_element"
    /\ to_tile_type(call.element.tags) = Road
    /\ Len(call.element.geometry) = 2
    /\ InsideBox(call.element.geometry[1])
    /\ ~InsideBox(call.element.geometry[2])
    /\ Written = {}
    /\ call.ret = Ok(0)

\* A road of two segments of which only the first is inside: the cells of
\* the first segment are written, the cell of the middle point included
C25_WitnessFirstOnly ==
    /\ call.op = "rasterize_element"
    /\ to_tile_type(call.element.tags) = Road
    /\ Len(call.element.geometry) = 3
    /\ DrawnSegments(call.element.geometry) = {1}
    /\ call.element.geometry[1] # call.element.geometry[2]
    /\ Written = SegmentCells(call.element.geometry, 1)
    /\ Cardinality(Written) >= 2

\* A single point of a typed element outside the box: nothing is written
C25_WitnessPoint ==
    /\ call.op = "rasterize_element"
    /\ to_tile_type(call.element.tags) # Empty
    /\ Len(call.element.geometry) = 1
    /\ ~InsideBox(call.element.geometry[1])
    /\ Written = {}
    /\ call.ret = Ok(0)


(***************************************************************************)
(* Repeated priority writes.  A grid of PrioW by 1 empty tiles receives    *)
(* any sequence of set_tile_with_priority calls, with a tile of any type   *)
(* at any x in 0..PrioW (PrioW itself is out of bounds).  The call record  *)
(* keeps, for every cell, the number of calls that returned Ok(true), and  *)
(* their sum, which is what generate_grid accumulates in                   *)
(* total_tiles_updated and stores as metadata.tiles_populated.  No call is *)
(* made once a cell has been written more than MaxPriority times.          *)
(***************************************************************************)
PrioW == 1

MaxPriority == 11

InitPrio ==
    /\ width = PrioW
    /\ height = 1
    /\ bounding_box = Box(F64(0), F64(0), F64(1), F64(1))
    /\ tiles = new_tiles(PrioW, 1)
    /\ call = [op |-> "new", successes |-> [x \in 0..(PrioW - 1) |-> 0],
               total_tiles_updated |-> 0]
    /\ nops = 0
    /\ metadata = GridMetadata_new
    /\ meters_per_tile = F64(DefaultTileSize)
    /\ world = NoWorld
    /\ gen = NoGenerator

PrioSetTile(x, tile) ==
    /\ LET r == set_tile_with_priority(tiles, x, 0, tile)
           updated == r.ret = Ok(TRUE)
       IN  /\ tiles' = r.tiles
           /\ call' = [op |-> "set_tile_with_priority",
                       successes |->
                           IF updated
                           THEN [call.successes EXCEPT ![x] = @ + 1]
                           ELSE call.successes,
                       total_tiles_updated |->
                           call.total_tiles_updated + (IF updated THEN 1 ELSE 0),
                       x |-> x, ret |-> r.ret]
    /\ UNCHANGED <<world, width, height, bounding_box, meters_per_tile, nops, metadata, gen>>

CallPrioSetTile ==
    /\ \A x \in DOMAIN call.successes : call.successes[x] <= MaxPriority
    /\ \E x \in 0..PrioW, t \in TileType : PrioSetTile(x, Tile_new(t))

NextPrio == CallPrioSetTile

SpecPrio == InitPrio /\ [][NextPrio]_vars

(***************************************************************************)
(* C26: in any sequence of set_tile_with_priority calls each cell is       *)
(* written (Ok(true)) at most 11 times, because every successful write     *)
(* strictly raises the priority of the cell's tile, which stays in 0..11.  *)
(* Hence the number of successful writes, which generate_grid stores as    *)
(* metadata.tiles_populated, lies between the number of non-empty tiles    *)
(* and 11 times that number.                                               *)
(***************************************************************************)
C26_WritesBounded ==
    /\ \A x \in DOMAIN call.successes :
           /\ call.successes[x] <= MaxPriority
           /\ call.successes[x] <= priority(tiles[0][x].tile_type)
           /\ priority(tiles[0][x].tile_type) \in 0..MaxPriority
           /\ (call.successes[x] = 0) <=> (tiles[0][x].tile_type = Empty)
    /\ statistics(tiles).non_empty_tiles <= call.total_tiles_updated
    /\ call.total_tiles_updated <= MaxPriority * statistics(tiles).non_empty_tiles

\* A call that returns Ok(true) raises the cell's priority and the count of
\* that cell by one; any other call leaves tiles and counts alone
C26_WriteRaises ==
    \A x \in 0..(PrioW - 1) :
        IF call'.successes[x] # call.successes[x]
        THEN /\ call'.ret = Ok(TRUE)
             /\ call'.x = x
             /\ call'.successes[x] = call.successes[x] + 1
             /\ priority(tiles'[0][x].tile_type) > priority(tiles[0][x].tile_type)
        ELSE tiles'[0][x] = tiles[0][x]

C26_AtMostEleven == []C26_WritesBounded /\ [][C26_WriteRaises]_vars

\* A cell written 11 times: the chain of all priorities up to Tourism
C26_Witness ==
    /\ call.op = "set_tile_with_priority"
    /\ call.successes[0] = MaxPriority
    /\ tiles[0][0].tile_type = Tourism
    /\ call.total_tiles_updated = MaxPriority * statistics(tiles).non_empty_tiles

\* A write of no higher priority is refused: Ok(false) on a non-empty cell
C26_WitnessRefused ==
    /\ call.op = "set_tile_with_priority"
    /\ call.ret = Ok(FALSE)
    /\ call.successes[0] = 1
    /\ tiles[0][0].tile_type = Building

\* The lower bound is met: every non-empty cell written once
C26_WitnessOnce ==
    /\ call.op = "set_tile_with_priority"
    /\ statistics(tiles).non_empty_tiles = PrioW
    /\ call.total_tiles_updated = PrioW

\* After generate_grid: the stored count lies between the number of
\* non-empty tiles and 11 times that number
C26_PopulatedBounds ==
    gen.pc = "done" =>
        /\ statistics(tiles).non_empty_tiles <= metadata.tiles_populated
        /\ metadata.tiles_populated <= MaxPriority * statistics(tiles).non_empty_tiles


(***************************************************************************)
(* The Bevy plugin.  OsmTilesPlugin::build inserts the MapLoadQueue        *)
(* resource, registers the messages and adds the three systems             *)
(* handle_load_requests, process_loading_tasks and handle_completed_tasks  *)
(* to the Update schedule, with no ordering between them.  All three take  *)
(* ResMut<MapLoadQueue> and Commands, so in every frame each of them runs  *)
(* once, one at a time, in any order, and the commands they queued are     *)
(* applied when all three have run.  world holds:                          *)
(*   queue            the MapLoadQueue resource                            *)
(*   load_events      the LoadMapMessages not yet read                     *)
(*   loaded_events, failed_events, progress_events                         *)
(*                    the messages written so far, in order                *)
(*   loading, map_tiles                                                    *)
(*                    the MapLoading and MapTiles component of each target *)
(*                    entity, None where it has none                       *)
(*   tasks            the load tasks: the future on the task pool and the  *)
(*                    LoadingTask entity that tracks it                    *)
(*   commands         the commands queued in this frame                    *)
(*   ran              the systems that have run in this frame              *)
(*   queued, started  history: every request pushed to pending, in order,  *)
(*                    and the positions in queued of the started requests  *)
(* A request is its city_name and target_entity; features, grid_resolution *)
(* and provider_override only go into load_map_async, whose result is      *)
(* chosen freely here (it depends on the provider's answer).               *)
(***************************************************************************)
MaxRequests == 2        \* LoadMapMessages written in one behaviour
MaxConcurrentLoads == 2 \* OsmTilesPlugin::new: max_concurrent_loads; the plugin's is in 0..2

Cities == {"Berlin", "Paris"}

TargetEntities == {"player"}

Systems == {"handle_load_requests", "process_loading_tasks", "handle_completed_tasks"}

\* MapLoadRequest::new
MapLoadRequest_new(city_name) == [city_name |-> city_name, target_entity |-> None]

\* MapLoadRequest::for_entity
for_entity(self, entity) == [self EXCEPT !.target_entity = Some(entity)]

\* The requests written: one for each city, and one for an entity for the
\* first city
LoadRequests ==
    {MapLoadRequest_new(c) : c \in Cities}
    \cup {for_entity(MapLoadRequest_new("Berlin"), e) : e \in TargetEntities}

\* HashMap::new, insert, remove
HashMap_new == [k \in {} |-> 0]

HashMap_insert(m, k, v) == [c \in DOMAIN m \cup {k} |-> IF c = k THEN v ELSE m[c]]

HashMap_remove(m, k) == [c \in DOMAIN m \ {k} |-> m[c]]

\* OsmTilesPlugin::with_max_concurrent_loads(max) and build
build(max, applied) ==
    [built |-> TRUE,
     queue |-> [pending |-> <<>>, active |-> HashMap_new, max_concurrent |-> max],
     load_events |-> <<>>,
     loaded_events |-> <<>>,
     failed_events |-> <<>>,
     progress_events |-> <<>>,
     loading |-> [e \in TargetEntities |-> None],
     map_tiles |-> [e \in TargetEntities |-> None],
     tasks |-> {},
     commands |-> <<>>,
     ran |-> {},
     system_state_applied |-> applied,
     queued |-> <<>>,
     started |-> <<>>]

\* The commands of the closure that a finished task returns are taken from
\* a SystemState on which apply is never called (task_processor.rs 51-59):
\* whether they take effect is left open, one way or the other for the
\* whole behaviour.
InitPlugin ==
    /\ width = 1
    /\ height = 1
    /\ bounding_box = Box(F64(0), F64(0), F64(1), F64(1))
    /\ tiles = new_tiles(1, 1)
    /\ call = [op |-> "new"]
    /\ nops = 0
    /\ metadata = GridMetadata_new
    /\ meters_per_tile = F64(DefaultTileSize)
    /\ gen = NoGenerator
    /\ \E max \in 0..MaxConcurrentLoads, applied \in BOOLEAN :
           world = build(max, applied)

pluginRest == <<width, height, bounding_box, tiles, call, nops, metadata, meters_per_tile, gen>>

\* MapLoadingExt::load_map_with_request: some system writes a LoadMapMessage
LoadMap(request) ==
    /\ world' = [world EXCEPT !.load_events = Append(@, request)]
    /\ UNCHANGED pluginRest

CallLoadMap ==
    /\ Len(world.queued) + Len(world.load_events) < MaxRequests
    /\ \E request \in LoadRequests : LoadMap(request)

\* handle_load_requests: the loop over the unread messages, from the k-th
RECURSIVE handle_load_requests(_, _)
handle_load_requests(w, k) ==
    IF k > Len(w.load_events) THEN [w EXCEPT !.load_events = <<>>]
    ELSE LET request == w.load_events[k]
             marked == IF IsSome(request.target_entity)
                       THEN [w EXCEPT !.commands =
                                Append(@, [cmd |-> "insert_MapLoading",
                                           entity |-> Unwrap(request.target_entity),
                                           request |-> request])]
                       ELSE w
         IN  handle_load_requests(
                 [marked EXCEPT !.queue.pending = Append(@, request),
                                !.queued = Append(@, request)],
                 k + 1)

HandleLoadRequests ==
    /\ "handle_load_requests" \notin world.ran
    /\ world' = [handle_load_requests(world, 1) EXCEPT
                    !.ran = @ \cup {"handle_load_requests"}]
    /\ UNCHANGED pluginRest

\* The test of the while loop of process_loading_tasks on the active map
has_capacity_le(queue) == Cardinality(DOMAIN queue.active) <= queue.max_concurrent

has_capacity(queue) == Cardinality(DOMAIN queue.active) < queue.max_concurrent

\* "Skip if already loading this city"
already_loading_never(queue, city_key) == FALSE

already_loading(queue, city_key) == city_key \in DOMAIN queue.active

\* process_loading_tasks: the while loop.  The task starts on the pool at
\* once; the entity that tracks it is reserved at once and spawned when the
\* commands are applied.
RECURSIVE process_loading_tasks(_)
process_loading_tasks(w) ==
    IF has_capacity(w.queue) /\ w.queue.pending # <<>>
    THEN LET request == Head(w.queue.pending)
             popped == [w EXCEPT !.queue.pending = Tail(@)]
             city_key == request.city_name
             task_entity == Len(w.started) + 1
         IN  IF already_loading(popped.queue, city_key)
             THEN process_loading_tasks(popped)
             ELSE process_loading_tasks(
                      [popped EXCEPT
                          !.tasks = @ \cup {[entity |-> task_entity,
                                             request |-> request,
                                             result |-> "running",
                                             spawned |-> FALSE,
                                             polled |-> FALSE]},
                          !.commands = Append(@, [cmd |-> "spawn_LoadingTask",
                                                  entity |-> task_entity]),
                          !.queue.active = HashMap_insert(@, city_key, task_entity),
                          !.progress_events = Append(@, request),
                          !.started = Append(@, Len(w.queued) - Len(w.queue.pending) + 1)])
    ELSE w

ProcessLoadingTasks ==
    /\ "process_loading_tasks" \notin world.ran
    /\ world' = [process_loading_tasks(world) EXCEPT
                    !.ran = @ \cup {"process_loading_tasks"}]
    /\ UNCHANGED pluginRest

\* load_map_async returns: the task of the entity finishes with Ok or Err
TaskFinishes(task, result) ==
    /\ task \in world.tasks
    /\ task.result = "running"
    /\ world' = [world EXCEPT !.tasks = (@ \ {task}) \cup {[task EXCEPT !.result = result]}]
    /\ UNCHANGED pluginRest

CallTaskFinishes ==
    \E task \in world.tasks, result \in {"Ok", "Err"} : TaskFinishes(task, result)

\* The second loop of handle_completed_tasks: no city is removed
remove_completed_none(active, completed_cities, k) == active

\* The second loop of handle_completed_tasks, from the k-th city
RECURSIVE remove_completed(_, _, _)
remove_completed(active, completed_cities, k) ==
    IF k > Len(completed_cities) THEN active
    ELSE remove_completed(HashMap_remove(active, completed_cities[k]),
                          completed_cities, k + 1)

\* The first loop of handle_completed_tasks over the LoadingTask entities,
\* from entity e on: a finished task hands over its command queue, its
\* entity is despawned and its city noted
RECURSIVE poll_tasks(_, _, _)
poll_tasks(w, completed_cities, e) ==
    IF e > Len(w.started) THEN [world |-> w, completed_cities |-> completed_cities]
    ELSE LET ready == {t \in w.tasks : t.entity = e /\ t.spawned /\ t.result # "running"}
         IN  IF ready = {} THEN poll_tasks(w, completed_cities, e + 1)
             ELSE LET loading_task == CHOOSE t \in ready : TRUE
                  IN  poll_tasks(
                          [w EXCEPT
                              !.commands = @ \o <<[cmd |-> "append",
                                                   request |-> loading_task.request,
                                                   result |-> loading_task.result],
                                                  [cmd |-> "despawn", entity |-> e]>>,
                              !.tasks = (@ \ {loading_task})
                                        \cup {[loading_task EXCEPT !.polled = TRUE]}],
                          Append(completed_cities, loading_task.request.city_name),
                          e + 1)

handle_completed_tasks(w) ==
    LET polled == poll_tasks(w, <<>>, 1)
    IN  [polled.world EXCEPT
            !.queue.active = remove_completed(@, polled.completed_cities, 1)]

HandleCompletedTasks ==
    /\ "handle_completed_tasks" \notin world.ran
    /\ world' = [handle_completed_tasks(world) EXCEPT
                    !.ran = @ \cup {"handle_completed_tasks"}]
    /\ UNCHANGED pluginRest

\* The closure pushed on the command queue of a finished task
task_result(w, request, result) ==
    IF result = "Ok"
    THEN LET sent == [w EXCEPT !.loaded_events = Append(@, request)]
         IN  IF IsSome(request.target_entity)
                /\ IsSome(w.loading[Unwrap(request.target_entity)])
                /\ w.system_state_applied
             THEN [sent EXCEPT
                      !.loading[Unwrap(request.target_entity)] = None,
                      !.map_tiles[Unwrap(request.target_entity)] = Some(request)]
             ELSE sent
    ELSE LET sent == [w EXCEPT !.failed_events = Append(@, request)]
         IN  IF IsSome(request.target_entity) /\ w.system_state_applied
             THEN [sent EXCEPT !.loading[Unwrap(request.target_entity)] = None]
             ELSE sent

\* One queued command applied to the world
apply_command(w, c) ==
    CASE c.cmd = "insert_MapLoading" ->
             [w EXCEPT !.loading[c.entity] = Some(c.request)]
      [] c.cmd = "spawn_LoadingTask" ->
             [w EXCEPT !.tasks =
                 {IF t.entity = c.entity THEN [t EXCEPT !.spawned = TRUE] ELSE t :
                     t \in @}]
      [] c.cmd = "append" -> task_result(w, c.request, c.result)
      [] c.cmd = "despawn" ->
             [w EXCEPT !.tasks = {t \in @ : t.entity # c.entity}]

RECURSIVE apply_commands(_, _)
apply_commands(w, k) ==
    IF k > Len(w.commands) THEN [w EXCEPT !.commands = <<>>]
    ELSE apply_commands(apply_command(w, w.commands[k]), k + 1)

\* The end of the Update schedule: the queued commands are applied, in the
\* order in which they were queued, and the next frame begins
ApplyDeferred ==
    /\ world.ran = Systems
    /\ world' = [apply_commands(world, 1) EXCEPT !.ran = {}]
    /\ UNCHANGED pluginRest

NextPlugin ==
    \/ CallLoadMap
    \/ HandleLoadRequests
    \/ ProcessLoadingTasks
    \/ HandleCompletedTasks
    \/ CallTaskFinishes
    \/ ApplyDeferred

SpecPlugin == InitPlugin /\ [][NextPlugin]_vars

\* The schedule runs frame after frame, so that each system and the end of
\* the frame comes when it is due, and every spawned load task terminates
SpecPluginFair ==
    /\ SpecPlugin
    /\ WF_vars(HandleLoadRequests)
    /\ WF_vars(ProcessLoadingTasks)
    /\ WF_vars(HandleCompletedTasks)
    /\ WF_vars(ApplyDeferred)
    /\ WF_vars(CallTaskFinishes)

(***************************************************************************)
(* C27: in every reachable state of the plugin, under any order of the     *)
(* three systems within a frame and any timing of the requests and of the  *)
(* tasks, the number of entries of MapLoadQueue.active never exceeds       *)
(* max_concurrent.                                                         *)
(***************************************************************************)
C27_ActiveWithinLimit ==
    world.built =>
        Cardinality(DOMAIN world.queue.active) <= world.queue.max_concurrent

\* The limit is reached and a request waits in pending for a free slot
C27_Witness ==
    /\ world.built
    /\ world.queue.max_concurrent >= 1
    /\ Cardinality(DOMAIN world.queue.active) = world.queue.max_concurrent
    /\ world.queue.pending # <<>>
    /\ Head(world.queue.pending).city_name \notin DOMAIN world.queue.active
    /\ "process_loading_tasks" \in world.ran

\* With a limit of 0 nothing is ever started
C27_WitnessZero ==
    /\ world.built
    /\ world.queue.max_concurrent = 0
    /\ world.queue.pending # <<>>
    /\ "process_loading_tasks" \in world.ran
    /\ world.tasks = {}

(***************************************************************************)
(* C28: at no time are two loading tasks in progress for the same city.    *)
(* A task is in progress from its start in process_loading_tasks until     *)
(* handle_completed_tasks has polled its result, and the keys of active    *)
(* are exactly the cities of the tasks in progress, each mapped to the     *)
(* entity of its task.  A request popped from pending while its city is a  *)
(* key of active is dropped: no task is started for it.                    *)
(***************************************************************************)
InProgress == {t \in world.tasks : ~t.polled}

C28_OneTaskPerCity ==
    world.built =>
        /\ \A t1 \in InProgress, t2 \in InProgress :
               t1.request.city_name = t2.request.city_name => t1 = t2
        /\ DOMAIN world.queue.active = {t.request.city_name : t \in InProgress}
        /\ \A t \in InProgress : world.queue.active[t.request.city_name] = t.entity

\* The positions in queued of the requests popped by the step
Popped ==
    {i \in 1..Len(world.queued) :
        /\ i > Len(world.queued) - Len(world.queue.pending)
        /\ i <= Len(world'.queued) - Len(world'.queue.pending)}

StartedSet(w) == {w.started[k] : k \in 1..Len(w.started)}

\* A run of process_loading_tasks starts no task for a popped request whose
\* city was a key of active, and every task it starts is for a popped
\* request
C28_Discarded ==
    (world.built /\ "process_loading_tasks" \in world'.ran \ world.ran) =>
        LET dropped == {i \in Popped :
                           world.queued[i].city_name \in DOMAIN world.queue.active}
        IN  /\ StartedSet(world') \ StartedSet(world) \subseteq Popped \ dropped
            /\ world.tasks \subseteq world'.tasks
            /\ Cardinality(world'.tasks \ world.tasks)
                   = Len(world'.started) - Len(world.started)
            /\ Len(world'.progress_events) - Len(world.progress_events)
                   = Len(world'.started) - Len(world.started)
            /\ \A t \in world'.tasks \ world.tasks :
                   /\ t.request.city_name \notin DOMAIN world.queue.active
                   /\ world'.queue.active[t.request.city_name] = t.entity

C28_NoTwoTasksPerCity == []C28_OneTaskPerCity /\ [][C28_Discarded]_vars

\* A second request for a city that is being loaded was popped and dropped:
\* two requests were queued and popped, one task was started
C28_Witness ==
    /\ world.built
    /\ Len(world.queued) >= 2
    /\ world.queued[1].city_name = world.queued[2].city_name
    /\ Len(world.queue.pending) = Len(world.queued) - 2
    /\ world.started = <<1>>
    /\ Cardinality(InProgress) = 1

\* Two tasks in progress at once, for different cities
C28_WitnessTwo ==
    /\ world.built
    /\ Cardinality(InProgress) = 2

\* A city loaded again after its first task was polled
C28_WitnessAgain ==
    /\ world.built
    /\ Len(world.started) = 2
    /\ world.queued[world.started[1]].city_name = world.queued[world.started[2]].city_name


\* The number of entries of a sequence that equal r
Count(seq, r) == Cardinality({k \in 1..Len(seq) : seq[k] = r})

\* The LoadMapMessages written so far that carry r, and the MapLoadedMessages
\* and MapLoadFailedMessages written so far that carry r
Sent(r) == Count(world.queued \o world.load_events, r)

Answers(r) == Count(world.loaded_events \o world.failed_events, r)

\* Nothing is left to do: no unread message, nothing pending, nothing
\* active, no task, no queued command
Idle ==
    /\ world.load_events = <<>>
    /\ world.queue.pending = <<>>
    /\ DOMAIN world.queue.active = {}
    /\ world.tasks = {}
    /\ world.commands = <<>>

(***************************************************************************)
(* C29: every LoadMapMessage is eventually answered by exactly one         *)
(* MapLoadedMessage or MapLoadFailedMessage carrying its request, and a    *)
(* target entity given a MapLoading component eventually has it removed,   *)
(* when every spawned task terminates and the systems keep running.  Here  *)
(* the first half, for plugins with max_concurrent >= 1 only; the second   *)
(* half is C29_LoadingRemoved below.  Every behaviour has at most          *)
(* MaxRequests requests, so "every request is eventually answered" is      *)
(* "from some time on the answers carrying r are as many as the requests   *)
(* carrying r, for every r".                                               *)
(***************************************************************************)
AllAnswered == \A r \in LoadRequests : Answers(r) = Sent(r)

NoneLoading == \A e \in TargetEntities : world.loading[e] = None

C29_EveryRequestAnswered ==
    (world.built /\ world.queue.max_concurrent >= 1) =>
        /\ [](\A r \in LoadRequests : Answers(r) <= Sent(r))
        /\ <>[]AllAnswered

\* The second half of C29, for the plugins in which the commands of the
\* task's closure take effect: from some time on no target entity has a
\* MapLoading component
C29_LoadingRemoved ==
    (world.built /\ world.queue.max_concurrent >= 1 /\ world.system_state_applied) =>
        <>[]NoneLoading

\* What the code keeps: the requests for which a task was started are the
\* ones that are answered, each exactly once
StartedAnswered ==
    \A r \in LoadRequests : Answers(r) = Count(world.progress_events, r)

C29_StartedAnswered ==
    /\ [](world.built =>
              \A r \in LoadRequests : Answers(r) <= Count(world.progress_events, r))
    /\ <>[](world.built => StartedAnswered)

\* A request dropped for good: the plugin is idle, and a request for a city
\* that was being loaded has no answer
C29_Dropped ==
    /\ world.built
    /\ world.queue.max_concurrent >= 1
    /\ Idle
    /\ world.ran = {}
    /\ Len(world.queued) = 2
    /\ world.queued[1].city_name = world.queued[2].city_name
    /\ Len(world.loaded_events) + Len(world.failed_events) = 1

\* The same with a target entity: its MapLoading component stays
C29_DroppedLoading ==
    /\ C29_Dropped
    /\ world.queued[1].target_entity = None
    /\ world.queued[2].target_entity # None
    /\ ~NoneLoading

(***************************************************************************)
(* C30: when a load task has finished, with Ok or Err, the run of          *)
(* handle_completed_tasks that polls it removes its city from active and   *)
(* so frees its slot.  With max_concurrent >= 1, and every behaviour       *)
(* having finitely many requests, pending and active are empty from some   *)
(* time on.  Requests are started in the order in which they were queued:  *)
(* pending is always the not yet popped rest of queued, and the positions  *)
(* of the started requests rise.                                           *)
(***************************************************************************)
Finished(w) == {t \in w.tasks : t.spawned /\ t.result # "running" /\ ~t.polled}

C30_Frees ==
    (world.built /\ "handle_completed_tasks" \in world'.ran \ world.ran) =>
        /\ DOMAIN world'.queue.active =
               DOMAIN world.queue.active
                   \ {t.request.city_name : t \in Finished(world)}
        /\ Cardinality(DOMAIN world'.queue.active) =
               Cardinality(DOMAIN world.queue.active) - Cardinality(Finished(world))
        /\ Finished(world') = {}
        /\ \A t \in world.tasks \ Finished(world) : t \in world'.tasks

C30_Order ==
    world.built =>
        /\ world.queue.pending =
               SubSeq(world.queued,
                      Len(world.queued) - Len(world.queue.pending) + 1,
                      Len(world.queued))
        /\ \A j \in 1..Len(world.started), k \in 1..Len(world.started) :
               j < k => world.started[j] < world.started[k]
        /\ \A k \in 1..Len(world.started) :
               /\ world.started[k] <= Len(world.queued) - Len(world.queue.pending)
               /\ world.progress_events[k] = world.queued[world.started[k]]

Drained == world.queue.pending = <<>> /\ DOMAIN world.queue.active = {}

C30_FreesAndDrains ==
    /\ []C30_Order
    /\ [][C30_Frees]_vars
    /\ (world.built /\ world.queue.max_concurrent >= 1) => <>[]Drained

\* A slot freed and used again: with a limit of 1 two requests were started
\* one after the other, the first failed, the second succeeded, and the
\* queue is drained
C30_Witness ==
    /\ world.built
    /\ world.queue.max_concurrent = 1
    /\ world.started = <<1, 2>>
    /\ world.failed_events = <<world.queued[1]>>
    /\ world.loaded_events = <<world.queued[2]>>
    /\ Drained
    /\ world.tasks = {}

\* A finished task was polled in this frame: its city is no key of active
\* while its entity awaits the despawn
C30_WitnessPolled ==
    /\ world.built
    /\ \E t \in world.tasks :
           /\ t.polled
           /\ t.request.city_name \notin DOMAIN world.queue.active
    /\ "handle_completed_tasks" \in world.ran

=============================================================================
